---- MODULE Spec2Model ----
\* Streaming synthesis-and-playback pipeline of react-native-sherpa-onnx-offline-tts:
\* the text segmenter (splitText), the synthesis driver (generate, generateAndPlay),
\* the audio players of the two platforms and the JavaScript wrapper.
\*
\* Strings are sequences of one-character strings. Indices into them are 1-based
\* here (the sources are 0-based); "not found" is 0 (the sources' -1 / nil).
EXTENDS Integers, Sequences, FiniteSets, TLC

\* ------------------------------------------------------------------ bounds
\* Longest text the segmenter specification draws.
MaxTextLen == 6
\* Largest maxWords the segmenter specification draws.
MaxMaxWords == 3

\* The alphabet of the texts: a letter, the two punctuation marks the segmenter
\* looks for, and whitespace.
Chars == {"a", ".", ",", " "}

Platforms == {"ios", "android"}

\* ------------------------------------------------------------------ strings
Min(a, b) == IF a < b THEN a ELSE b

\* CharacterSet.whitespacesAndNewlines / Kotlin's \s and Char.isWhitespace,
\* restricted to the alphabet.
IsWhitespace(c) == c = " "

RECURSIVE DropLeadingWhitespace(_)
DropLeadingWhitespace(s) ==
    IF s # <<>> /\ IsWhitespace(Head(s)) THEN DropLeadingWhitespace(Tail(s)) ELSE s

RECURSIVE DropTrailingWhitespace(_)
DropTrailingWhitespace(s) ==
    IF s # <<>> /\ IsWhitespace(s[Len(s)])
    THEN DropTrailingWhitespace(SubSeq(s, 1, Len(s) - 1))
    ELSE s

\* text.trimmingCharacters(in: .whitespacesAndNewlines) / text.trim()
trim(s) == DropTrailingWhitespace(DropLeadingWhitespace(s))

\* Swift: s.components(separatedBy: .whitespacesAndNewlines): one component
\* between every two separators, empty components included.
RECURSIVE components(_)
components(s) ==
    IF s = <<>> THEN << <<>> >>
    ELSE LET rest == components(Tail(s)) IN
         IF IsWhitespace(Head(s)) THEN << <<>> >> \o rest
         ELSE << <<Head(s)>> \o Head(rest) >> \o Tail(rest)

\* Kotlin: s.split("\\s+".toRegex()): the separators are the maximal runs of
\* whitespace; leading and trailing empty strings are kept.
RECURSIVE splitRegex(_)
splitRegex(s) ==
    IF s = <<>> THEN << <<>> >>
    ELSE IF IsWhitespace(Head(s)) THEN << <<>> >> \o splitRegex(DropLeadingWhitespace(s))
    ELSE LET rest == splitRegex(Tail(s)) IN
         << <<Head(s)>> \o Head(rest) >> \o Tail(rest)

\* .filter { !$0.isEmpty } / .filter { it.isNotEmpty() }
filterNotEmpty(ws) == SelectSeq(ws, LAMBDA w : w # <<>>)

\* words.joined(separator: " ") / joinToString(" ")
RECURSIVE joined(_)
joined(ws) ==
    IF ws = <<>> THEN <<>>
    ELSE IF Len(ws) = 1 THEN ws[1]
    ELSE ws[1] \o <<" ">> \o joined(Tail(ws))

\* A search that runs forward: the position of the first c, 0 when there is none.
RECURSIVE indexOf_First(_, _)
indexOf_First(s, c) ==
    IF s = <<>> THEN 0
    ELSE IF Head(s) = c THEN 1
    ELSE LET rest == indexOf_First(Tail(s), c) IN IF rest = 0 THEN 0 ELSE rest + 1

\* chunk.range(of: c, options: .backwards) / chunk.lastIndexOf(c):
\* the 1-based position of the last c, 0 when there is none.
RECURSIVE lastIndexOf(_, _)
lastIndexOf(s, c) ==
    IF s = <<>> THEN 0
    ELSE IF s[Len(s)] = c THEN Len(s)
    ELSE lastIndexOf(SubSeq(s, 1, Len(s) - 1), c)

\* ------------------------------------------------------------------ splitText
\* An iOS segmenter that keeps the empty components of the text.
wordsOf_KeepEmpty(platform, text) ==
    IF platform = "ios" THEN components(text)
    ELSE filterNotEmpty(splitRegex(text))

\* let words = text.components(...).filter { !$0.isEmpty }        (iOS)
\* val words = text.split("\\s+".toRegex()).filter { ... }        (Android)
wordsOf(platform, text) ==
    IF platform = "ios" THEN filterNotEmpty(components(text))
    ELSE filterNotEmpty(splitRegex(text))

\* A cut that leaves the cursor where it is.
wordCount_Zero(platform, sentence) == 0

\* The number of words the cursor advances by after a punctuation cut:
\* sentence.components(separatedBy:).count / sentence.split(regex).size
wordCount(platform, sentence) ==
    IF platform = "ios" THEN Len(components(sentence)) ELSE Len(splitRegex(sentence))

\* A window that is one word too long.
endIndex_OneMore(currentIdx, maxWords, totalWords) ==
    Min(currentIdx + maxWords + 1, totalWords)

\* let endIndex = min(currentIndex + maxWords, totalWords)
endIndex(currentIdx, maxWords, totalWords) == Min(currentIdx + maxWords, totalWords)

\* One iteration of the while loop of splitText: the sentence it appends and the
\* new value of currentIndex (0-based count of words consumed).
splitStep(platform, words, currentIdx, maxWords) ==
    LET e          == endIndex(currentIdx, maxWords, Len(words))
        chunk      == joined(SubSeq(words, currentIdx + 1, e))
        lastPeriod == lastIndexOf(chunk, ".")
        lastComma  == lastIndexOf(chunk, ",")
    IN  IF lastPeriod # 0
        THEN LET sentence == trim(SubSeq(chunk, 1, lastPeriod))
             IN  [sentence |-> sentence,
                  next |-> currentIdx + wordCount(platform, sentence)]
        ELSE IF lastComma # 0
        THEN LET sentence == trim(SubSeq(chunk, 1, lastComma))
             IN  [sentence |-> sentence,
                  next |-> currentIdx + wordCount(platform, sentence)]
        ELSE [sentence |-> trim(chunk), next |-> currentIdx + maxWords]

\* The whole loop, from a cursor position.
RECURSIVE splitFrom(_, _, _, _)
splitFrom(platform, words, currentIdx, maxWords) ==
    IF currentIdx < Len(words)
    THEN LET st == splitStep(platform, words, currentIdx, maxWords)
         IN  <<st.sentence>> \o splitFrom(platform, words, st.next, maxWords)
    ELSE <<>>

\* func splitText(_ text: String, maxWords: Int) -> [String]
splitText(platform, text, maxWords) ==
    splitFrom(platform, wordsOf(platform, text), 0, maxWords)

\* ------------------------------------------------------------------ pipeline data
\* splitText(trimmedText, maxWords: 15) / splitText(trimmedText, 15)
maxWordsPerCall == 15

\* initialize = (modelId) => TTSManager.initializeTTS(22050, 1, modelId), scaled:
\* the model's sample rate is SampleRate, one channel.
SampleRate == 10
channels == 1
chunkDurationMs == 200

\* private val samplesPerChunk = ((sampleRate * channels * chunkDurationMs) / 1000).toInt()
samplesPerChunk == (SampleRate * channels * chunkDurationMs) \div 1000

\* How many calls of the control surface (initializeTTS, deinitialize, generate,
\* generateAndPlay) a behaviour makes.
MaxCalls == 3

\* How many calls a behaviour of the specification with fairness makes.
MaxFairCalls == 2

\* The calls made in the behaviours checked with failing device writes, and the
\* number of writes that fail in them.
MaxFaultCalls == 2
MaxFaults == 1

HelloText == <<"H","e","l","l","o"," ","w","o","r","l","d","."," ",
               "T","h","i","s"," ","i","s"," ","a"," ","t","e","s","t",".">>

\* The texts the callers pass: empty, whitespace only, the end-to-end scenario's
\* text, and a text of two segments whose second has no final period.
RequestTexts == { <<>>, <<" ">>, HelloText, <<"a", ".", " ", "a">> }

\* The sample counts of the audio the engine returns.
AudioLengths == {1}

\* The sample rates of the models that can be loaded: the rate the JavaScript
\* wrapper configures the player with, and another one.
EngineRates == {SampleRate, 2 * SampleRate}

NoChunk == [r |-> 0, k |-> 0, n |-> 0, sr |-> 0]

\* ------------------------------------------------------------------ state
VARIABLES
    \* the segmenter run on its own (specification SplitSpec)
    splitPlatform,   \* which platform's splitText runs
    splitInput,      \* its text argument
    splitMaxWords,   \* its maxWords argument
    splitPc,         \* "idle" | "loop" | "returned"
    currentIndex,    \* var currentIndex
    sentences,       \* var sentences
    processed,       \* the processedSentence of each sentence, in the order of the loop
    \* the end-of-utterance trim run on its own (specification TrimSpec)
    trimFile,        \* which source file's generate runs
    audioSamples,    \* audio.samples, in thousandths of full scale
    trimIndex,       \* index: the position of the segment in sentences
    trimCount,       \* sentences.count
    trimRate,        \* self.sampleRate
    trimPc,          \* "idle" | "generated" | "emitted"
    emittedSamples,  \* the samples of the chunk emitted to JavaScript
    \* the accesses to the iOS audioQueue, statement by statement (specification LockSpec)
    queueLock,       \* "free", or the function that holds queueLock
    queueCount,      \* audioQueue.count
    producerPc,      \* playAudioData: "idle" | "append" | "unlock"
    workerPc,        \* processAudioQueue: "loop" | "isEmpty" | "removeFirst" | "schedule"
    handlerPc,       \* handleInterruption: "idle" | "interrupted" | "isEmpty"
    isPlaying,       \* audioPlayerNode.isPlaying
    toPlay,          \* the playAudioData calls still to come
    toInterrupt,     \* the interruptions still to come
    \* the Android player's volume monitor run on its own (specification MonitorSpec)
    monitor,         \* the AudioPlayer and its threads, <<>> while there is none
    \* the pipeline (specification Spec)
    platform,             \* "ios" | "android": which native module is linked
    tts,                  \* TRUE iff the field tts holds an engine
    engineRate,           \* the sample rate of the audio that engine returns (0: no engine)
    realTimeAudioPlayer,  \* 0 (nil / null) or the index in players of the current player
    players,              \* every AudioPlayer object created so far
    requests,             \* every generate / generateAndPlay call made so far
    callerPc,             \* what the thread that runs the module's methods is doing
    mainQueue,            \* blocks waiting on the main queue / main looper, in FIFO order
    chunkEvents,          \* the AudioChunkGenerated events delivered to JavaScript
    written,              \* the chunks handed to the output device, in order
    calls,                \* the number of control-surface calls made so far
    callBudget,           \* the number of calls JavaScript makes in this behaviour
    faultBudget           \* the number of device writes that fail in this behaviour

splitVars == <<splitPlatform, splitInput, splitMaxWords, splitPc, currentIndex, sentences,
               processed>>

pipeVars == <<platform, tts, engineRate, realTimeAudioPlayer, players, requests, callerPc,
              mainQueue, chunkEvents, written, calls, callBudget, faultBudget>>

\* The state of the specifications of the pure functions.
trimVars == <<trimFile, audioSamples, trimIndex, trimCount, trimRate, trimPc, emittedSamples>>

lockVars == <<queueLock, queueCount, producerPc, workerPc, handlerPc, isPlaying, toPlay,
              toInterrupt>>

monitorVars == <<monitor>>

pureVars == <<splitVars, trimVars, lockVars, monitorVars>>

vars == <<pureVars, pipeVars>>

\* ------------------------------------------------------------------ SplitSpec
\* All texts of at most MaxTextLen characters.
AllTexts == UNION {[1..n -> Chars] : n \in 0..MaxTextLen}

\* The texts splitText is called with: trimmed and not empty.
TrimmedTexts == {t \in AllTexts : t # <<>> /\ trim(t) = t}

SplitIdle ==
    /\ splitPlatform = "ios"
    /\ splitInput = <<>>
    /\ splitMaxWords = 1
    /\ splitPc = "idle"
    /\ currentIndex = 0
    /\ sentences = <<>>
    /\ processed = <<>>

TrimIdle ==
    /\ trimFile = "SherpaOnnxOfflineTts.swift"
    /\ audioSamples = <<>>
    /\ trimIndex = 0
    /\ trimCount = 1
    /\ trimRate = 0
    /\ trimPc = "idle"
    /\ emittedSamples = <<>>

LockIdle ==
    /\ queueLock = "free"
    /\ queueCount = 0
    /\ producerPc = "idle"
    /\ workerPc = "loop"
    /\ handlerPc = "idle"
    /\ isPlaying = FALSE
    /\ toPlay = 0
    /\ toInterrupt = 0

MonitorIdle == monitor = <<>>

PipeIdle ==
    /\ platform = "ios"
    /\ tts = FALSE
    /\ engineRate = 0
    /\ realTimeAudioPlayer = 0
    /\ players = <<>>
    /\ requests = <<>>
    /\ callerPc = <<"idle", 0>>
    /\ mainQueue = <<>>
    /\ chunkEvents = <<>>
    /\ written = <<>>
    /\ calls = 0
    /\ callBudget = 0
    /\ faultBudget = 0

SplitInit ==
    /\ PipeIdle
    /\ TrimIdle
    /\ LockIdle
    /\ MonitorIdle
    /\ splitPlatform \in Platforms
    /\ splitInput \in TrimmedTexts
    /\ splitMaxWords \in 1..MaxMaxWords
    /\ splitPc = "loop"
    /\ currentIndex = 0
    /\ sentences = <<>>
    /\ processed = <<>>

\* while currentIndex < totalWords { ... }: one iteration.
SplitLoop ==
    /\ splitPc = "loop"
    /\ currentIndex < Len(wordsOf(splitPlatform, splitInput))
    /\ LET st == splitStep(splitPlatform, wordsOf(splitPlatform, splitInput),
                           currentIndex, splitMaxWords)
       IN  /\ sentences' = Append(sentences, st.sentence)
           /\ currentIndex' = st.next
    /\ UNCHANGED <<splitPlatform, splitInput, splitMaxWords, splitPc, processed>>
    /\ UNCHANGED <<trimVars, lockVars, monitorVars, pipeVars>>

\* return sentences
SplitReturn ==
    /\ splitPc = "loop"
    /\ ~(currentIndex < Len(wordsOf(splitPlatform, splitInput)))
    /\ splitPc' = "returned"
    /\ UNCHANGED <<splitPlatform, splitInput, splitMaxWords, currentIndex, sentences,
                   processed>>
    /\ UNCHANGED <<trimVars, lockVars, monitorVars, pipeVars>>

\* A rule that appends a period to every sentence.
processedSentence_Always(sentence) == Append(sentence, ".")

\* let processedSentence = sentence.hasSuffix(".") ? sentence : "\(sentence)."
\* val processedSentence = if (sentence.endsWith(".")) sentence else "$sentence."
processedSentence(sentence) ==
    IF sentence # <<>> /\ sentence[Len(sentence)] = "."
    THEN sentence
    ELSE Append(sentence, ".")

\* for sentence in sentences { let processedSentence = ... }: one iteration, up
\* to the call of the engine with processedSentence.
ProcessSentence ==
    /\ splitPc = "returned"
    /\ Len(processed) < Len(sentences)
    /\ processed' = Append(processed, processedSentence(sentences[Len(processed) + 1]))
    /\ UNCHANGED <<splitPlatform, splitInput, splitMaxWords, splitPc, currentIndex, sentences>>
    /\ UNCHANGED <<trimVars, lockVars, monitorVars, pipeVars>>

SplitNext == SplitLoop \/ SplitReturn \/ ProcessSentence

SplitSpec == SplitInit /\ [][SplitNext]_vars

\* Before splitText is called.
SplitFairInit ==
    /\ SplitIdle
    /\ TrimIdle
    /\ LockIdle
    /\ MonitorIdle
    /\ PipeIdle

\* The call splitText(trimmedText, maxWords) of generate / generateAndPlay.
SplitCall ==
    /\ splitPc = "idle"
    /\ splitPlatform' \in Platforms
    /\ splitInput' \in TrimmedTexts
    /\ splitMaxWords' \in 1..MaxMaxWords
    /\ splitPc' = "loop"
    /\ UNCHANGED <<currentIndex, sentences, processed>>
    /\ UNCHANGED <<trimVars, lockVars, monitorVars, pipeVars>>

SplitFairNext == SplitCall \/ SplitLoop \/ SplitReturn \/ ProcessSentence

\* A step of splitText or of the loop over its result is to be taken: the state
\* predicate that ENABLED <<SplitNext>>_vars is, each of the three steps
\* changing the state.
SplitPending ==
    \/ splitPc = "loop"
    \/ splitPc = "returned" /\ Len(processed) < Len(sentences)

\* splitText and the loop over its result run on one thread, which goes on
\* running until they are done: weak fairness of SplitNext, with its
\* enabledness written as SplitPending. Nothing obliges the caller to make the
\* call.
SplitFairness == []<>(~SplitPending) \/ []<><<SplitNext>>_vars

SplitFairSpec == SplitFairInit /\ [][SplitFairNext]_vars /\ SplitFairness

\* ------------------------------------------------------------------ TrimSpec
\* The longest audio the engine returns for one segment, in samples.
MaxSamples == 4

\* The largest number of segments of a request.
MaxSentences == 2

\* Sample amplitudes, in thousandths of full scale: silence, a sample between the
\* thresholds 0.002 and 0.008, one between 0.008 and 0.01, a sample above every
\* threshold and the negative full scale.
SampleLevels == {0, 3, 9, 20, 0 - 1000}

\* The two generate implementations with a trim: the single pass of
\* ios/SherpaOnnxOfflineTts.swift and the two passes of unnamed/part_003.
TrimFiles == {"SherpaOnnxOfflineTts.swift", "part_003"}

\* Sample rates, scaled so that the 2 ms, 8 ms and 10 ms buffers are 0, 1 and 1
\* samples (150) or 1, 4 and 6 samples (600), within the audio lengths checked.
TrimRates == {150, 600}

\* let aggressiveThreshold: Float = 0.008, in thousandths.
aggressiveThreshold == 8

\* max(0, sampleCount - 500): the reach of the second scan, scaled with the
\* audio lengths checked.
aggressiveWindow == 3

abs(x) == IF x < 0 THEN 0 - x ELSE x

\* let silenceThreshold: Float = 0.01 (SherpaOnnxOfflineTts.swift) and
\* let silenceThreshold: Float = 0.002 (part_003), in thousandths.
silenceThreshold(file) == IF file = "part_003" THEN 2 ELSE 10

\* A trim that adds no buffer after the last significant sample.
bufferSamples_None(sampleRate, ms) == 0

\* Int(self.sampleRate * ms / 1000): the samples of a buffer of ms milliseconds.
bufferSamples(sampleRate, ms) == (sampleRate * ms) \div 1000

\* A scan that ends at 0 when it finds no sample above the threshold.
scanBack_Empty(samples, sampleCount, through, threshold) ==
    LET above == {i \in through..(sampleCount - 1) : abs(samples[i + 1]) > threshold}
    IN  IF above = {} THEN 0
        ELSE (CHOOSE i \in above : \A j \in above : j <= i) + 1

\* for i in stride(from: sampleCount - 1, through: through, by: -1) {
\*     if abs(samples[i]) > threshold { sampleCount = i + 1; break } }
\* The value of sampleCount after the loop (unchanged if no sample is found).
scanBack(samples, sampleCount, through, threshold) ==
    LET above == {i \in through..(sampleCount - 1) : abs(samples[i + 1]) > threshold}
    IN  IF above = {} THEN sampleCount
        ELSE (CHOOSE i \in above : \A j \in above : j <= i) + 1

\* foundSignificantAudio after the first scan: some sample is above the threshold.
foundSignificantAudio(samples, threshold) ==
    \E i \in 1..Len(samples) : abs(samples[i]) > threshold

\* SherpaOnnxOfflineTts.swift: sampleCount when the chunk is converted. Only
\* the last segment is scanned and gets the 10 ms buffer.
sampleCount_single(samples, index, count, sampleRate) ==
    IF index = count - 1
    THEN Min(scanBack(samples, Len(samples), 0, silenceThreshold("SherpaOnnxOfflineTts.swift"))
                 + bufferSamples(sampleRate, 10),
             Len(samples))
    ELSE Len(samples)

\* part_003: sampleCount when the trim is applied. Every segment gets the first
\* scan; the last one, if the first scan found audio, gets the second scan over
\* the trailing window and a 2 ms buffer, every other case an 8 ms buffer.
sampleCount_twoPass(samples, index, count, sampleRate) ==
    LET first == scanBack(samples, Len(samples), 0, silenceThreshold("part_003"))
        lowest == IF first - aggressiveWindow > 0 THEN first - aggressiveWindow ELSE 0
    IN  IF index = count - 1 /\ foundSignificantAudio(samples, silenceThreshold("part_003"))
        THEN Min(scanBack(samples, first, lowest, aggressiveThreshold)
                     + bufferSamples(sampleRate, 2),
                 Len(samples))
        ELSE Min(first + bufferSamples(sampleRate, 8), Len(samples))

sampleCountOf(file, samples, index, count, sampleRate) ==
    IF file = "part_003"
    THEN sampleCount_twoPass(samples, index, count, sampleRate)
    ELSE sampleCount_single(samples, index, count, sampleRate)

\* samples.prefix(sampleCount)
prefix(samples, sampleCount) == SubSeq(samples, 1, Min(sampleCount, Len(samples)))

\* private val scalingFactor = 0.42f, in hundredths.
scalingFactor == 42

\* computePeak(data): the largest absolute value, 0 for no samples.
computePeak(data) ==
    IF data = <<>> THEN 0
    ELSE LET a == {abs(data[i]) : i \in 1..Len(data)}
         IN  CHOOSE m \in a : \A v \in a : v <= m

\* val volume = rawPeak * scalingFactor: the level queued for a window of
\* samples, in thousandths.
volumeOf(chunkSamples) == (computePeak(chunkSamples) * scalingFactor) \div 100

AllAudio == UNION {[1..n -> SampleLevels] : n \in 0..MaxSamples}

\* The engine has returned the audio of segment trimIndex of trimCount.
TrimInit ==
    /\ SplitIdle
    /\ LockIdle
    /\ MonitorIdle
    /\ PipeIdle
    /\ trimFile \in TrimFiles
    /\ audioSamples \in AllAudio
    /\ trimCount \in 1..MaxSentences
    /\ trimIndex \in 0..(trimCount - 1)
    /\ trimRate \in TrimRates
    /\ trimPc = "generated"
    /\ emittedSamples = <<>>

\* From var sampleCount = ... to the Data built from the prefix: the samples of
\* the AudioChunkGenerated event of this segment.
TrimChunk ==
    /\ trimPc = "generated"
    /\ emittedSamples' = prefix(audioSamples,
                                sampleCountOf(trimFile, audioSamples, trimIndex, trimCount, trimRate))
    /\ trimPc' = "emitted"
    /\ UNCHANGED <<trimFile, audioSamples, trimIndex, trimCount, trimRate>>
    /\ UNCHANGED <<splitVars, lockVars, monitorVars, pipeVars>>

TrimNext == TrimChunk

TrimSpec == TrimInit /\ [][TrimNext]_vars

\* ------------------------------------------------------------------ LockSpec
\* The playAudioData calls and the interruptions of the behaviours checked.
MaxPlays == 2
MaxInterruptions == 2

\* The functions that touch audioQueue.
QueueUsers == {"playAudioData", "processAudioQueue", "handleInterruption"}

\* The function is inside a statement that reads or changes audioQueue.
touchesQueue(user) ==
    \/ user = "playAudioData" /\ producerPc = "append"
    \/ user = "processAudioQueue" /\ workerPc \in {"isEmpty", "removeFirst"}
    \/ user = "handleInterruption" /\ handlerPc = "isEmpty"

\* audioQueue is being changed: an append or a removeFirst is in progress.
queueChanging == producerPc = "append" \/ workerPc = "removeFirst"

LockInit ==
    /\ SplitIdle
    /\ TrimIdle
    /\ MonitorIdle
    /\ PipeIdle
    /\ queueLock = "free"
    /\ queueCount = 0
    /\ producerPc = "idle"
    /\ workerPc = "loop"
    /\ handlerPc = "idle"
    /\ isPlaying = FALSE
    /\ toPlay \in 1..MaxPlays
    /\ toInterrupt \in 0..MaxInterruptions

\* playAudioData: queueLock.lock() returns; audioQueue.append(data) begins.
PlayAudioData_lock ==
    /\ producerPc = "idle"
    /\ toPlay > 0
    /\ queueLock = "free"
    /\ queueLock' = "playAudioData"
    /\ producerPc' = "append"
    /\ toPlay' = toPlay - 1
    /\ UNCHANGED <<queueCount, workerPc, handlerPc, isPlaying, toInterrupt>>
    /\ UNCHANGED <<splitVars, trimVars, monitorVars, pipeVars>>

\* playAudioData: audioQueue.append(data) is done.
PlayAudioData_append ==
    /\ producerPc = "append"
    /\ queueCount' = queueCount + 1
    /\ producerPc' = "unlock"
    /\ UNCHANGED <<queueLock, workerPc, handlerPc, isPlaying, toPlay, toInterrupt>>
    /\ UNCHANGED <<splitVars, trimVars, monitorVars, pipeVars>>

\* playAudioData: queueLock.unlock()
PlayAudioData_unlock ==
    /\ producerPc = "unlock"
    /\ queueLock' = "free"
    /\ producerPc' = "idle"
    /\ UNCHANGED <<queueCount, workerPc, handlerPc, isPlaying, toPlay, toInterrupt>>
    /\ UNCHANGED <<splitVars, trimVars, monitorVars, pipeVars>>

\* processAudioQueue: queueLock.lock() returns; the test !audioQueue.isEmpty begins.
ProcessAudioQueue_lock ==
    /\ workerPc = "loop"
    /\ queueLock = "free"
    /\ queueLock' = "processAudioQueue"
    /\ workerPc' = "isEmpty"
    /\ UNCHANGED <<queueCount, producerPc, handlerPc, isPlaying, toPlay, toInterrupt>>
    /\ UNCHANGED <<splitVars, trimVars, monitorVars, pipeVars>>

\* processAudioQueue: the test is done. Not empty: audioQueue.removeFirst()
\* begins. Empty: queueLock.unlock(), usleep and the loop again.
ProcessAudioQueue_isEmpty ==
    /\ workerPc = "isEmpty"
    /\ IF queueCount > 0
       THEN /\ workerPc' = "removeFirst"
            /\ UNCHANGED queueLock
       ELSE /\ workerPc' = "loop"
            /\ queueLock' = "free"
    /\ UNCHANGED <<queueCount, producerPc, handlerPc, isPlaying, toPlay, toInterrupt>>
    /\ UNCHANGED <<splitVars, trimVars, monitorVars, pipeVars>>

\* processAudioQueue: audioQueue.removeFirst() is done; queueLock.unlock().
ProcessAudioQueue_removeFirst ==
    /\ workerPc = "removeFirst"
    /\ queueCount' = queueCount - 1
    /\ queueLock' = "free"
    /\ workerPc' = "schedule"
    /\ UNCHANGED <<producerPc, handlerPc, isPlaying, toPlay, toInterrupt>>
    /\ UNCHANGED <<splitVars, trimVars, monitorVars, pipeVars>>

\* processAudioQueue: scheduleBuffer; if !audioPlayerNode.isPlaying, play().
ProcessAudioQueue_schedule ==
    /\ workerPc = "schedule"
    /\ isPlaying' = TRUE
    /\ workerPc' = "loop"
    /\ UNCHANGED <<queueLock, queueCount, producerPc, handlerPc, toPlay, toInterrupt>>
    /\ UNCHANGED <<splitVars, trimVars, monitorVars, pipeVars>>

\* handleInterruption, case .began: if audioPlayerNode.isPlaying, pause().
HandleInterruption_began ==
    /\ handlerPc = "idle"
    /\ toInterrupt > 0
    /\ toInterrupt' = toInterrupt - 1
    /\ isPlaying' = FALSE
    /\ handlerPc' = "interrupted"
    /\ UNCHANGED <<queueLock, queueCount, producerPc, workerPc, toPlay>>
    /\ UNCHANGED <<splitVars, trimVars, monitorVars, pipeVars>>

\* handleInterruption, case .ended with .shouldResume: the session and the
\* engine are restarted; if !audioPlayerNode.isPlaying the read of
\* audioQueue.isEmpty begins (&& evaluates its right side only then). The
\* handler does not take queueLock.
HandleInterruption_ended ==
    /\ handlerPc = "interrupted"
    /\ handlerPc' = IF isPlaying THEN "idle" ELSE "isEmpty"
    /\ UNCHANGED <<queueLock, queueCount, producerPc, workerPc, isPlaying, toPlay, toInterrupt>>
    /\ UNCHANGED <<splitVars, trimVars, monitorVars, pipeVars>>

\* handleInterruption: the read of audioQueue.isEmpty is done; if the queue is
\* not empty, audioPlayerNode.play(). A read that overlaps an append or a
\* removeFirst of another thread is a data race: it may give either answer.
HandleInterruption_isEmpty ==
    /\ handlerPc = "isEmpty"
    /\ \E empty \in (IF queueChanging THEN BOOLEAN ELSE {queueCount = 0}) :
         isPlaying' = (isPlaying \/ ~empty)
    /\ handlerPc' = "idle"
    /\ UNCHANGED <<queueLock, queueCount, producerPc, workerPc, toPlay, toInterrupt>>
    /\ UNCHANGED <<splitVars, trimVars, monitorVars, pipeVars>>

LockNext ==
    \/ PlayAudioData_lock
    \/ PlayAudioData_append
    \/ PlayAudioData_unlock
    \/ ProcessAudioQueue_lock
    \/ ProcessAudioQueue_isEmpty
    \/ ProcessAudioQueue_removeFirst
    \/ ProcessAudioQueue_schedule
    \/ HandleInterruption_began
    \/ HandleInterruption_ended
    \/ HandleInterruption_isEmpty

LockSpec == LockInit /\ [][LockNext]_vars

\* ------------------------------------------------------------------ MonitorSpec
\* The enqueueAudioData calls and the timer ticks of the behaviours checked.
MaxEnqueues == 2
MaxTicks == 3

\* The chunks enqueued, samples in thousandths of full scale: shorter than a
\* window, one window, and two windows and a half with the volumes 210 and 420.
MonitorChunks == {<<500>>, <<1000, 500>>, <<500, 500, 1000, 1000, 500>>}

\* A window that counts as full only when it holds more than samplesPerChunk.
windowFull_Over(size) == size > samplesPerChunk

\* while (accumulationBuffer.size >= samplesPerChunk)
windowFull(size) == size >= samplesPerChunk

\* A queue that puts the newest volume in front.
offer_First(queue, volume) == <<volume>> \o queue

\* volumesQueue.offer(volume)
offer(queue, volume) == Append(queue, volume)

\* processAccumulatedSamples(): the loop, from a buffer and a queue of volumes.
\* Each turn takes the first samplesPerChunk samples out of the buffer and offers
\* their scaled peak; offered lists the volumes in the order they were offered.
RECURSIVE processAccumulatedSamples(_, _, _)
processAccumulatedSamples(buffer, queue, offered) ==
    IF windowFull(Len(buffer))
    THEN LET chunkSamples == SubSeq(buffer, 1, samplesPerChunk)
             rest         == SubSeq(buffer, samplesPerChunk + 1, Len(buffer))
             volume       == volumeOf(chunkSamples)
         IN  processAccumulatedSamples(rest, offer(queue, volume), Append(offered, volume))
    ELSE [buffer |-> buffer, queue |-> queue, offered |-> offered]

\* delegate?.didUpdateVolume(value), as the host receives it.
VolumeEvent(kind, value) == [kind |-> kind, value |-> value]

\* An AudioPlayer on which start() has run: isRunning = true, the runnable is
\* posted and the playback thread started.
startedPlayer(enqueues, ticks) ==
    [isRunning |-> TRUE,           \* @Volatile private var isRunning
     sentCompletion |-> FALSE,     \* @Volatile private var sentCompletion
     audioQueue |-> <<>>,          \* the chunks queued, each a sequence of samples
     accumulationBuffer |-> <<>>,  \* the samples of the window being filled
     volumesQueue |-> <<>>,        \* the volumes waiting for a timer tick
     threadPc |-> "check",         \* the playback thread: "check" | "take" | "accumulate" |
                                   \* "write" | "completion" | "done"
     takenSamples |-> <<>>,        \* val samples = audioQueue.take()
     interrupted |-> FALSE,        \* the playback thread's interrupt status
     enqueuePc |-> <<>>,           \* enqueueAudioData: <<>> between calls, else <<chunk>>
     stopPc |-> "none",            \* stopPlayer: "none" | "interrupt" | "join" | "stopped"
     callbacks |-> "posted",       \* volumeUpdateRunnable: "posted" | "ended" | "removed"
     postedIdle |-> 0,             \* the blocks delivering -1 that wait on the main looper
     delivered |-> <<>>,           \* history: the events handed to the delegate, in order
     pushed |-> <<>>,              \* history: the volumes offered to volumesQueue, in order
     dequeued |-> 0,               \* history: the number of samples taken from audioQueue
     idleDelivered |-> FALSE,      \* history: the -1 of the thread's last post was
                                   \* delivered and no enqueueAudioData call has begun
                                   \* since that post
     toEnqueue |-> enqueues,       \* the enqueueAudioData calls still to come
     toTick |-> ticks]             \* the timer ticks still to come

MonitorInit ==
    /\ SplitIdle
    /\ TrimIdle
    /\ LockIdle
    /\ PipeIdle
    /\ \E enqueues \in 1..MaxEnqueues, ticks \in 1..MaxTicks :
           monitor = startedPlayer(enqueues, ticks)

\* enqueueAudioData(samples, sr) with sr == sampleRate: sentCompletion = false
EnqueueAudioData_reset ==
    /\ monitor.enqueuePc = <<>>
    /\ monitor.toEnqueue > 0
    /\ \E chunk \in MonitorChunks :
           monitor' = [monitor EXCEPT !.enqueuePc = <<chunk>>,
                                      !.sentCompletion = FALSE,
                                      !.idleDelivered = FALSE,
                                      !.toEnqueue = @ - 1]
    /\ UNCHANGED <<splitVars, trimVars, lockVars, pipeVars>>

\* enqueueAudioData: audioQueue.offer(samples)
EnqueueAudioData_offer ==
    /\ monitor.enqueuePc # <<>>
    /\ monitor' = [monitor EXCEPT !.audioQueue = Append(@, monitor.enqueuePc[1]),
                                  !.enqueuePc = <<>>]
    /\ UNCHANGED <<splitVars, trimVars, lockVars, pipeVars>>

\* The playback thread: while (isRunning)
Thread_while ==
    /\ monitor.threadPc = "check"
    /\ monitor' = [monitor EXCEPT !.threadPc = IF monitor.isRunning THEN "take" ELSE "done"]
    /\ UNCHANGED <<splitVars, trimVars, lockVars, pipeVars>>

\* val samples = audioQueue.take(): blocks while the queue is empty; throws
\* InterruptedException when the thread is interrupted (caught: break).
Thread_take ==
    /\ monitor.threadPc = "take"
    /\ \/ /\ monitor.interrupted
          /\ monitor' = [monitor EXCEPT !.threadPc = "done"]
       \/ /\ ~monitor.interrupted
          /\ monitor.audioQueue # <<>>
          /\ monitor' = [monitor EXCEPT !.takenSamples = Head(monitor.audioQueue),
                                        !.audioQueue = Tail(@),
                                        !.dequeued = @ + Len(Head(monitor.audioQueue)),
                                        !.threadPc = "accumulate"]
    /\ UNCHANGED <<splitVars, trimVars, lockVars, pipeVars>>

\* synchronized(this) { accumulationBuffer.addAll(samples.asList());
\*                      processAccumulatedSamples() }
Thread_accumulate ==
    /\ monitor.threadPc = "accumulate"
    /\ LET after == processAccumulatedSamples(
                        monitor.accumulationBuffer \o monitor.takenSamples,
                        monitor.volumesQueue, <<>>)
       IN  monitor' = [monitor EXCEPT !.accumulationBuffer = after.buffer,
                                      !.volumesQueue = after.queue,
                                      !.pushed = @ \o after.offered,
                                      !.threadPc = "write"]
    /\ UNCHANGED <<splitVars, trimVars, lockVars, pipeVars>>

\* audioTrack?.write(samples, 0, samples.size, AudioTrack.WRITE_BLOCKING)
Thread_write ==
    /\ monitor.threadPc = "write"
    /\ monitor' = [monitor EXCEPT !.takenSamples = <<>>, !.threadPc = "completion"]
    /\ UNCHANGED <<splitVars, trimVars, lockVars, pipeVars>>

\* maybeSendCompletion()
Thread_maybeSendCompletion ==
    /\ monitor.threadPc = "completion"
    /\ IF /\ ~monitor.sentCompletion
          /\ monitor.audioQueue = <<>>
          /\ monitor.accumulationBuffer = <<>>
       THEN monitor' = [monitor EXCEPT !.sentCompletion = TRUE,
                                       !.postedIdle = @ + 1,
                                       !.threadPc = "check"]
       ELSE monitor' = [monitor EXCEPT !.threadPc = "check"]
    /\ UNCHANGED <<splitVars, trimVars, lockVars, pipeVars>>

\* volumeUpdateRunnable.run(), when its post comes due on the main looper.
VolumeTick ==
    /\ monitor.callbacks = "posted"
    /\ monitor.toTick > 0
    /\ IF ~monitor.isRunning
       THEN monitor' = [monitor EXCEPT !.callbacks = "ended", !.toTick = @ - 1]
       ELSE IF monitor.volumesQueue # <<>>
       THEN monitor' = [monitor EXCEPT
                !.delivered = Append(@, VolumeEvent("level", Head(monitor.volumesQueue))),
                !.volumesQueue = Tail(@),
                !.toTick = @ - 1]
       ELSE IF ~monitor.sentCompletion
       THEN monitor' = [monitor EXCEPT !.delivered = Append(@, VolumeEvent("zero", 0)),
                                       !.toTick = @ - 1]
       ELSE monitor' = [monitor EXCEPT !.toTick = @ - 1]
    /\ UNCHANGED <<splitVars, trimVars, lockVars, pipeVars>>

\* mainHandler.post { delegate?.didUpdateVolume(-1f) }, when the block runs.
Looper_idle ==
    /\ monitor.postedIdle > 0
    /\ monitor' = [monitor EXCEPT !.postedIdle = @ - 1,
                                  !.delivered = Append(@, VolumeEvent("idle", 0 - 1)),
                                  !.idleDelivered = monitor.sentCompletion /\ monitor.postedIdle = 1]
    /\ UNCHANGED <<splitVars, trimVars, lockVars, pipeVars>>

\* stopPlayer(): isRunning = false
StopPlayer_isRunning ==
    /\ monitor.stopPc = "none"
    /\ monitor' = [monitor EXCEPT !.isRunning = FALSE, !.stopPc = "interrupt"]
    /\ UNCHANGED <<splitVars, trimVars, lockVars, pipeVars>>

\* stopPlayer(): playbackThread?.interrupt()
StopPlayer_threadInterrupt ==
    /\ monitor.stopPc = "interrupt"
    /\ monitor' = [monitor EXCEPT !.interrupted = (monitor.threadPc # "done"),
                                  !.stopPc = "join"]
    /\ UNCHANGED <<splitVars, trimVars, lockVars, pipeVars>>

\* stopPlayer(): playbackThread?.join() returns; removeCallbacks; the track is
\* released; synchronized(this) { accumulationBuffer.clear();
\* volumesQueue.clear() }; the -1 is posted.
StopPlayer_clear ==
    /\ monitor.stopPc = "join"
    /\ monitor.threadPc = "done"
    /\ monitor' = [monitor EXCEPT !.callbacks = IF @ = "posted" THEN "removed" ELSE @,
                                  !.accumulationBuffer = <<>>,
                                  !.volumesQueue = <<>>,
                                  !.postedIdle = @ + 1,
                                  !.stopPc = "stopped"]
    /\ UNCHANGED <<splitVars, trimVars, lockVars, pipeVars>>

MonitorNext ==
    \/ EnqueueAudioData_reset
    \/ EnqueueAudioData_offer
    \/ Thread_while
    \/ Thread_take
    \/ Thread_accumulate
    \/ Thread_write
    \/ Thread_maybeSendCompletion
    \/ VolumeTick
    \/ Looper_idle
    \/ StopPlayer_isRunning
    \/ StopPlayer_threadInterrupt
    \/ StopPlayer_clear

MonitorSpec == MonitorInit /\ [][MonitorNext]_vars

\* ------------------------------------------------------------------ pipeline helpers
\* tts?.generate(text, sid, speed): nil exactly when the field tts is nil (optional
\* chaining on a call whose own result is not optional); otherwise audio of some
\* length. 0 stands for nil, n > 0 for audio of n samples.
engineResults(ttsPresent) == IF ttsPresent THEN AudioLengths ELSE {0}

\* An emptiness check that forgets to trim.
emptyText_NoTrim(text) == text = <<>>

\* let trimmedText = text.trimmingCharacters(...); guard !trimmedText.isEmpty
\* val trimmedText = text.trim(); if (trimmedText.isEmpty())
emptyText(text) == trim(text) = <<>>

\* enqueueAudioData: if (sr != sampleRate) throw IllegalArgumentException(...).
\* playAudioData(from:) on iOS does not look at the rate of the audio.
rateAccepted(plat, sr) == plat = "ios" \/ sr = SampleRate

\* The outcomes of one device write: it succeeds, or, while writes may still
\* fail in this behaviour, it fails. Android: AudioTrack.write returns a negative
\* error code. iOS: AVAudioPCMBuffer(pcmFormat:frameCapacity:) returns nil.
writeSucceeds(budget) == IF budget > 0 THEN {TRUE, FALSE} ELSE {TRUE}

\* A loop that goes on to the next segment after a failed one in both modes.
continuesAfterFailure_Always(mode) == TRUE

\* What the loop over the segments does when the engine gives no audio: in
\* stream mode generate rejects and returns; in play mode generateAudio prints
\* and returns to the loop, which goes on.
continuesAfterFailure(mode) == mode = "play"

\* A queue that puts the new chunk in front.
enqueue_Front(queue, chunk) == <<chunk>> \o queue

\* audioQueue.append(data) / audioQueue.offer(samples)
enqueue(queue, chunk) == Append(queue, chunk)

\* A dequeue that loses the chunk behind the one it returns.
removeFirst_Skip(queue) == IF Len(queue) > 1 THEN Tail(Tail(queue)) ELSE Tail(queue)

\* audioQueue.removeFirst() / audioQueue.take(): the queue that is left.
removeFirst(queue) == Tail(queue)

\* index.tsx generate: await the native promise; on rejection log and rethrow.
jsGenerate(nativeOutcome) == nativeOutcome

\* index.tsx generateAndPlay: await the native promise; on rejection log only,
\* so the async function returns undefined either way.
jsGenerateAndPlay(nativeOutcome) == "resolved"

jsOutcome(mode, nativeOutcome) ==
    IF mode = "stream" THEN jsGenerate(nativeOutcome) ELSE jsGenerateAndPlay(nativeOutcome)

\* A call as it stands right after the native method was entered. engineCall is
\* 0, or the sample rate of the engine while a tts.generate call made for this
\* request from a dispatched closure is in progress.
newRequest(mode, text, sents) ==
    [mode |-> mode, text |-> text, sentences |-> sents, next |-> 0, failed |-> {},
     engineCall |-> 0, task |-> "none", native |-> "pending", code |-> "", resultKind |-> "none",
     totalChunks |-> -1, js |-> "pending",
     errorSegment |-> -1,    \* the segment whose sentence the rejection message quotes
     settles |-> 0]          \* history: the calls of the promise's resolver or rejecter

\* A resolver and rejecter that do nothing.
settle_Dropped(req, outcome, code, kind, total) == req

\* resolver(...) / rejecter(...) / promise.resolve / promise.reject, and with it the
\* continuation of the JavaScript wrapper that awaits the native promise.
\* A promise settles once: a second resolve or reject of the same promise is ignored.
settle(req, outcome, code, kind, total) ==
    IF req.native # "pending" THEN [req EXCEPT !.settles = @ + 1]
    ELSE [req EXCEPT !.native = outcome, !.code = code, !.resultKind = kind,
                     !.totalChunks = total, !.js = jsOutcome(req.mode, outcome),
                     !.settles = @ + 1]

\* AudioPlayer(...) as constructed by initializeTTS. Android: start() has run
\* (isRunning = true, the volume runnable posted, the playback thread started).
\* iOS: init has dispatched processAudioQueue and startVolumeTimer; isProcessing
\* is still false and volumeTimer still nil.
newPlayer(plat) ==
    [running |-> (plat = "android"),
     sentCompletion |-> FALSE,
     audioQueue |-> <<>>,
     accumulationBuffer |-> 0,
     volumesQueue |-> 0,
     pc |-> IF plat = "android" THEN "check" ELSE "start",
     held |-> NoChunk,
     interrupted |-> FALSE,
     timer |-> IF plat = "android" THEN "scheduled" ELSE "unset",
     device |-> "open",
     nodePlaying |-> FALSE,
     currentVolume |-> "zero",
     stopping |-> FALSE,     \* history: stop() / stopPlayer() has been entered
     stopped |-> FALSE,      \* history: stop() / stopPlayer() has returned
     lateWrites |-> 0,       \* history: device writes made since stop was entered
     enqueuedCount |-> 0,    \* history: chunks ever put into audioQueue
     stopTrail |-> "none",   \* history: volume events delivered since stop was entered:
                             \* "none" no sentinel yet, "idle" one sentinel and nothing
                             \* after it, "extra" some event after a sentinel
     idleSinceDrain |-> 0,   \* history: sentinels delivered while drained, since the
                             \* last enqueue (2 stands for two or more)
     signalled |-> FALSE,    \* history: a sentinel was delivered with sentCompletion
                             \* set, and nothing was enqueued since
     zeroAfterCompletion |-> FALSE,  \* history: a 0 was delivered while signalled
     activeIdle |-> FALSE,   \* history: a sentinel was delivered while a chunk was
                             \* queued or being written
     quietTick |-> FALSE,    \* history: since the last enqueue a timer tick found
                             \* nothing to report and reported nothing
     failedWrites |-> 0,     \* history: chunks whose device write failed
     reportedErrors |-> 0]   \* history: write errors handed to the delegate or to a
                             \* promise (no statement of either player does so)

\* The player has nothing left to play: the queue is empty and the worker holds
\* no chunk.
Drained(pl) == pl.audioQueue = <<>> /\ pl.held = NoChunk

\* Active playback: a chunk is queued or being written.
Active(pl) == ~Drained(pl)

\* A timer tick that reports 0 whenever no volume is pending.
tickReport_Spam(pending, completionSent) ==
    IF pending > 0 THEN "level" ELSE "zero"

\* volumeUpdateRunnable: val volume = volumesQueue.poll(); a pending volume is
\* reported; with none pending, 0 is reported unless completion was sent.
tickReport(pending, completionSent) ==
    IF pending > 0 THEN "level"
    ELSE IF ~completionSent THEN "zero"
    ELSE "nothing"

\* delegate?.didUpdateVolume(volume) -> sendVolumeUpdate / sendEvent("VolumeUpdate"):
\* the player's record once the host has received a volume event of the kind
\* "zero" (0), "level" (a computed volume) or "idle" (-1).
didUpdateVolume(pl, kind) ==
    [pl EXCEPT
       !.stopTrail = IF ~pl.stopping THEN @
                     ELSE IF @ = "none" THEN (IF kind = "idle" THEN "idle" ELSE "none")
                     ELSE "extra",
       !.idleSinceDrain = IF kind = "idle" /\ Drained(pl) THEN Min(@ + 1, 2) ELSE @,
       !.signalled = @ \/ (kind = "idle" /\ pl.sentCompletion),
       !.zeroAfterCompletion = @ \/ (kind = "zero" /\ pl.signalled),
       !.activeIdle = @ \/ (kind = "idle" /\ Active(pl) /\ ~pl.stopping)]

\* A block submitted to the main queue. rate is the sample rate of the audio an
\* "event" block carries (0 for the other kinds).
Block(kind, p, r, index, total) ==
    [kind |-> kind, p |-> p, r |-> r, index |-> index, total |-> total, rate |-> 0]

Idle == <<"idle", 0>>

\* ------------------------------------------------------------------ control surface
\* initializeTTS(sampleRate, channels, modelId) with a well-formed model configuration.
InitializeTTS ==
    /\ callerPc = Idle
    /\ calls < callBudget
    /\ players' = Append(players, newPlayer(platform))
    /\ realTimeAudioPlayer' = Len(players) + 1
    /\ tts' = TRUE
    /\ engineRate' \in EngineRates
    /\ mainQueue' = IF platform = "ios"
                    THEN Append(mainQueue, Block("startTimer", Len(players) + 1, 0, 0, 0))
                    ELSE mainQueue
    /\ UNCHANGED <<platform, callBudget, faultBudget, requests, callerPc, chunkEvents, written>>
    /\ calls' = calls + 1
    /\ UNCHANGED pureVars

\* A deinitialize that leaves the module's reference to the player in place.
clearedPlayer_Kept(ref) == ref

\* realTimeAudioPlayer = nil / realTimeAudioPlayer = null: the reference the
\* module holds once deinitialize has stopped the player.
clearedPlayer(ref) == 0

\* iOS deinitialize: realTimeAudioPlayer?.stop(); realTimeAudioPlayer = nil.
\* stop(): isProcessing = false; volumeTimer?.invalidate(); audioEngine.stop();
\* audioPlayerNode.stop(). It neither waits for the worker nor touches audioQueue.
\* With no player the optional chaining skips stop().
Deinitialize_ios ==
    /\ platform = "ios"
    /\ callerPc = Idle
    /\ calls < callBudget
    /\ IF realTimeAudioPlayer = 0
       THEN UNCHANGED players
       ELSE players' = [players EXCEPT
                     ![realTimeAudioPlayer].running = FALSE,
                     ![realTimeAudioPlayer].timer = IF @ = "scheduled" THEN "invalidated" ELSE @,
                     ![realTimeAudioPlayer].device = "stopped",
                     ![realTimeAudioPlayer].nodePlaying = FALSE,
                     ![realTimeAudioPlayer].stopping = TRUE,
                     ![realTimeAudioPlayer].stopped = TRUE]
    /\ realTimeAudioPlayer' = clearedPlayer(realTimeAudioPlayer)
    /\ UNCHANGED <<platform, callBudget, faultBudget, tts, engineRate, requests, callerPc, mainQueue, chunkEvents, written>>
    /\ calls' = calls + 1
    /\ UNCHANGED pureVars

\* Android deinitialize, first step. With no player: tts?.release(); tts = null.
\* With a player: stopPlayer() begins with isRunning = false.
Deinitialize_android ==
    /\ platform = "android"
    /\ callerPc = Idle
    /\ calls < callBudget
    /\ IF realTimeAudioPlayer = 0
       THEN /\ tts' = FALSE
            /\ engineRate' = 0
            /\ UNCHANGED <<players, callerPc>>
       ELSE /\ players' = [players EXCEPT ![realTimeAudioPlayer].running = FALSE,
                                           ![realTimeAudioPlayer].stopping = TRUE]
            /\ callerPc' = <<"interrupt", realTimeAudioPlayer>>
            /\ UNCHANGED <<tts, engineRate>>
    /\ UNCHANGED <<platform, callBudget, faultBudget, realTimeAudioPlayer, requests, mainQueue, chunkEvents, written>>
    /\ calls' = calls + 1
    /\ UNCHANGED pureVars

\* stopPlayer: playbackThread?.interrupt()
StopPlayer_interrupt ==
    /\ callerPc[1] = "interrupt"
    /\ players' = [players EXCEPT ![callerPc[2]].interrupted = (players[callerPc[2]].pc # "done")]
    /\ callerPc' = <<"join", callerPc[2]>>
    /\ UNCHANGED <<platform, callBudget, faultBudget, tts, engineRate, realTimeAudioPlayer, requests, mainQueue, chunkEvents, written, calls>>
    /\ UNCHANGED pureVars

\* stopPlayer: playbackThread?.join() returns once the thread has ended; then
\* removeCallbacks, audioTrack stop/release, accumulationBuffer and volumesQueue
\* cleared, -1 posted; back in deinitialize: realTimeAudioPlayer = null,
\* tts?.release(), tts = null. audioQueue is not touched.
StopPlayer_join ==
    /\ callerPc[1] = "join"
    /\ players[callerPc[2]].pc = "done"
    /\ players' = [players EXCEPT
                     ![callerPc[2]].timer = IF @ = "scheduled" THEN "removed" ELSE @,
                     ![callerPc[2]].device = "released",
                     ![callerPc[2]].accumulationBuffer = 0,
                     ![callerPc[2]].volumesQueue = 0,
                     ![callerPc[2]].stopped = TRUE]
    /\ mainQueue' = Append(mainQueue, Block("idle", callerPc[2], 0, 0, 0))
    /\ realTimeAudioPlayer' = clearedPlayer(realTimeAudioPlayer)
    /\ tts' = FALSE
    /\ engineRate' = 0
    /\ callerPc' = Idle
    /\ UNCHANGED <<platform, callBudget, faultBudget, requests, chunkEvents, written, calls>>
    /\ UNCHANGED pureVars

\* generateAndPlay(text, sid, speed, promise), up to the loop over the sentences.
GenerateAndPlay ==
    /\ callerPc = Idle
    /\ calls < callBudget
    /\ \E text \in RequestTexts :
         IF emptyText(text)
         THEN /\ requests' = Append(requests,
                    settle(newRequest("play", text, <<>>), "rejected", "EMPTY_TEXT", "none", -1))
              /\ UNCHANGED callerPc
         ELSE /\ requests' = Append(requests,
                    newRequest("play", text, splitText(platform, trim(text), maxWordsPerCall)))
              /\ callerPc' = <<"play", Len(requests) + 1>>
    /\ UNCHANGED <<platform, callBudget, faultBudget, tts, engineRate, realTimeAudioPlayer, players, mainQueue, chunkEvents, written>>
    /\ calls' = calls + 1
    /\ UNCHANGED pureVars

\* One iteration of the loop of generateAndPlay: generateAudio(processedSentence).
\* No result: an error is printed and generateAudio returns; the loop goes on.
\* A result: realTimeAudioPlayer?.playAudioData / enqueueAudioData. On Android
\* enqueueAudioData throws when the rates differ, before it touches
\* sentCompletion or the queue; generateAndPlay catches that and rejects.
\* Otherwise the chunk is appended (and sentCompletion reset on Android).
PlaySegment ==
    /\ callerPc[1] = "play"
    /\ LET r == callerPc[2]
           k == requests[r].next
       IN  /\ k < Len(requests[r].sentences)
           /\ \E res \in engineResults(tts) :
                IF res = 0
                THEN /\ requests' = [requests EXCEPT ![r].next = k + 1, ![r].failed = @ \cup {k}]
                     /\ UNCHANGED <<players, callerPc>>
                ELSE IF realTimeAudioPlayer # 0 /\ ~rateAccepted(platform, engineRate)
                THEN /\ requests' = [requests EXCEPT
                            ![r] = settle(@, "rejected", "GENERATION_ERROR", "none", -1)]
                     /\ callerPc' = Idle
                     /\ UNCHANGED players
                ELSE /\ requests' = [requests EXCEPT ![r].next = k + 1]
                     /\ UNCHANGED callerPc
                     /\ IF realTimeAudioPlayer = 0
                        THEN UNCHANGED players
                        ELSE players' = [players EXCEPT
                               ![realTimeAudioPlayer].audioQueue =
                                   enqueue(@, [r |-> r, k |-> k, n |-> res, sr |-> engineRate]),
                               ![realTimeAudioPlayer].sentCompletion =
                                   IF platform = "android" THEN FALSE ELSE @,
                               ![realTimeAudioPlayer].enqueuedCount = @ + 1,
                               ![realTimeAudioPlayer].idleSinceDrain = 0,
                               ![realTimeAudioPlayer].signalled = FALSE,
                               ![realTimeAudioPlayer].quietTick = FALSE]
    /\ UNCHANGED <<platform, callBudget, faultBudget, tts, engineRate, realTimeAudioPlayer, mainQueue, chunkEvents, written, calls>>
    /\ UNCHANGED pureVars

\* After the loop: resolver("Audio generated and played successfully").
PlayResolve ==
    /\ callerPc[1] = "play"
    /\ LET r == callerPc[2]
       IN  /\ requests[r].next >= Len(requests[r].sentences)
           /\ requests' = [requests EXCEPT ![r] = settle(@, "resolved", "", "message", -1)]
    /\ callerPc' = Idle
    /\ UNCHANGED <<platform, callBudget, faultBudget, tts, engineRate, realTimeAudioPlayer, players, mainQueue, chunkEvents, written, calls>>
    /\ UNCHANGED pureVars

\* generate(text, sid, speed, promise), up to the work on the sentences.
\* iOS hands the loop to DispatchQueue.global and returns; Android runs it in place.
Generate ==
    /\ callerPc = Idle
    /\ calls < callBudget
    /\ \E text \in RequestTexts :
         IF emptyText(text)
         THEN /\ requests' = Append(requests,
                    settle(newRequest("stream", text, <<>>), "rejected", "EMPTY_TEXT", "none", -1))
              /\ UNCHANGED callerPc
         ELSE LET req == newRequest("stream", text, splitText(platform, trim(text), maxWordsPerCall))
              IN  IF platform = "ios"
                  THEN /\ requests' = Append(requests, [req EXCEPT !.task = "running"])
                       /\ UNCHANGED callerPc
                  ELSE /\ requests' = Append(requests, req)
                       /\ callerPc' = <<"generate", Len(requests) + 1>>
    /\ UNCHANGED <<platform, callBudget, faultBudget, tts, engineRate, realTimeAudioPlayer, players, mainQueue, chunkEvents, written>>
    /\ calls' = calls + 1
    /\ UNCHANGED pureVars

\* iOS, one iteration of the loop in the dispatched closure, up to the call
\* self.tts?.generate(...). With tts nil there is no call: the rejecter is
\* dispatched to the main queue and the closure returns. Otherwise the engine
\* starts to synthesize the sentence.
StreamSegment_ios(r) ==
    /\ platform = "ios"
    /\ requests[r].task = "running"
    /\ requests[r].engineCall = 0
    /\ LET k == requests[r].next
       IN  /\ k < Len(requests[r].sentences)
           /\ IF ~tts /\ continuesAfterFailure("stream")
              THEN /\ requests' = [requests EXCEPT ![r].failed = @ \cup {k}, ![r].next = k + 1]
                   /\ UNCHANGED mainQueue
              ELSE IF ~tts
              THEN /\ requests' = [requests EXCEPT ![r].failed = @ \cup {k}, ![r].task = "done"]
                   /\ mainQueue' = Append(mainQueue, Block("reject", 0, r, k, 0))
              ELSE /\ requests' = [requests EXCEPT ![r].engineCall = engineRate]
                   /\ UNCHANGED mainQueue
    /\ UNCHANGED <<platform, callBudget, faultBudget, tts, engineRate, realTimeAudioPlayer, players, callerPc, chunkEvents, written, calls>>
    /\ UNCHANGED pureVars

\* iOS, the rest of the iteration: the engine returns the audio and the
\* sendEvent of the chunk is dispatched to the main queue.
StreamChunk_ios(r) ==
    /\ platform = "ios"
    /\ requests[r].task = "running"
    /\ requests[r].engineCall # 0
    /\ LET k == requests[r].next
       IN  \E res \in engineResults(TRUE) :
             /\ requests' = [requests EXCEPT ![r].next = k + 1, ![r].engineCall = 0]
             /\ mainQueue' = Append(mainQueue,
                    [Block("event", 0, r, k, Len(requests[r].sentences))
                        EXCEPT !.rate = requests[r].engineCall])
    /\ UNCHANGED <<platform, callBudget, faultBudget, tts, engineRate, realTimeAudioPlayer, players, callerPc, chunkEvents, written, calls>>
    /\ UNCHANGED pureVars

\* iOS, after the loop: the resolver is dispatched to the main queue.
StreamFinish_ios(r) ==
    /\ platform = "ios"
    /\ requests[r].task = "running"
    /\ requests[r].engineCall = 0
    /\ requests[r].next >= Len(requests[r].sentences)
    /\ requests' = [requests EXCEPT ![r].task = "done"]
    /\ mainQueue' = Append(mainQueue, Block("resolve", 0, r, 0, Len(requests[r].sentences)))
    /\ UNCHANGED <<platform, callBudget, faultBudget, tts, engineRate, realTimeAudioPlayer, players, callerPc, chunkEvents, written, calls>>
    /\ UNCHANGED pureVars

\* Android, one iteration of the loop of generate. No result: promise.reject
\* ("TTS_ERROR") and return. A result: the samples are kept for the final array.
GenerateSegment_android ==
    /\ callerPc[1] = "generate"
    /\ LET r == callerPc[2]
           k == requests[r].next
       IN  /\ k < Len(requests[r].sentences)
           /\ \E res \in engineResults(tts) :
                IF res = 0 /\ continuesAfterFailure("stream")
                THEN /\ requests' = [requests EXCEPT ![r].next = k + 1, ![r].failed = @ \cup {k}]
                     /\ UNCHANGED callerPc
                ELSE IF res = 0
                THEN /\ requests' = [requests EXCEPT
                            ![r] = settle([@ EXCEPT !.failed = @ \cup {k}, !.errorSegment = k],
                                          "rejected", "TTS_ERROR", "none", -1)]
                     /\ callerPc' = Idle
                ELSE /\ requests' = [requests EXCEPT ![r].next = k + 1]
                     /\ UNCHANGED callerPc
    /\ UNCHANGED <<platform, callBudget, faultBudget, tts, engineRate, realTimeAudioPlayer, players, mainQueue, chunkEvents, written, calls>>
    /\ UNCHANGED pureVars

\* Android, after the loop: all samples concatenated, base64-encoded and returned
\* as {audioData, sampleRate}. No event is emitted.
GenerateResolve_android ==
    /\ callerPc[1] = "generate"
    /\ LET r == callerPc[2]
       IN  /\ requests[r].next >= Len(requests[r].sentences)
           /\ requests' = [requests EXCEPT ![r] = settle(@, "resolved", "", "audioData", -1)]
    /\ callerPc' = Idle
    /\ UNCHANGED <<platform, callBudget, faultBudget, tts, engineRate, realTimeAudioPlayer, players, mainQueue, chunkEvents, written, calls>>
    /\ UNCHANGED pureVars

\* ------------------------------------------------------------------ main queue
\* The main queue (iOS) / main looper (Android) runs its blocks one at a time, in
\* the order they were submitted.
Main_event ==
    /\ mainQueue # <<>>
    /\ Head(mainQueue).kind = "event"
    /\ chunkEvents' = Append(chunkEvents,
           [r |-> Head(mainQueue).r, index |-> Head(mainQueue).index, total |-> Head(mainQueue).total,
            sampleRate |-> SampleRate, audioRate |-> Head(mainQueue).rate])
    /\ mainQueue' = Tail(mainQueue)
    /\ UNCHANGED <<platform, callBudget, faultBudget, tts, engineRate, realTimeAudioPlayer, players, requests, callerPc, written, calls>>
    /\ UNCHANGED pureVars

\* resolver(["success": true, "totalChunks": sentences.count])
Main_resolve ==
    /\ mainQueue # <<>>
    /\ Head(mainQueue).kind = "resolve"
    /\ requests' = [requests EXCEPT
           ![Head(mainQueue).r] = settle(@, "resolved", "", "chunks", Head(mainQueue).total)]
    /\ mainQueue' = Tail(mainQueue)
    /\ UNCHANGED <<platform, callBudget, faultBudget, tts, engineRate, realTimeAudioPlayer, players, callerPc, chunkEvents, written, calls>>
    /\ UNCHANGED pureVars

\* rejecter("GENERATION_ERROR", "Failed to generate audio for sentence: ...", nil)
Main_reject ==
    /\ mainQueue # <<>>
    /\ Head(mainQueue).kind = "reject"
    /\ requests' = [requests EXCEPT
           ![Head(mainQueue).r] = settle([@ EXCEPT !.errorSegment = Head(mainQueue).index],
                                         "rejected", "GENERATION_ERROR", "none", -1)]
    /\ mainQueue' = Tail(mainQueue)
    /\ UNCHANGED <<platform, callBudget, faultBudget, tts, engineRate, realTimeAudioPlayer, players, callerPc, chunkEvents, written, calls>>
    /\ UNCHANGED pureVars

\* iOS: self.startVolumeTimer(), dispatched by AudioPlayer.init.
Main_startVolumeTimer ==
    /\ mainQueue # <<>>
    /\ Head(mainQueue).kind = "startTimer"
    /\ players' = [players EXCEPT ![Head(mainQueue).p].timer = "scheduled"]
    /\ mainQueue' = Tail(mainQueue)
    /\ UNCHANGED <<platform, callBudget, faultBudget, tts, engineRate, realTimeAudioPlayer, requests, callerPc, chunkEvents, written, calls>>
    /\ UNCHANGED pureVars

\* Android: mainHandler.post { delegate?.didUpdateVolume(-1f) }
Main_idleVolume ==
    /\ mainQueue # <<>>
    /\ Head(mainQueue).kind = "idle"
    /\ players' = [players EXCEPT ![Head(mainQueue).p] = didUpdateVolume(@, "idle")]
    /\ mainQueue' = Tail(mainQueue)
    /\ UNCHANGED <<platform, callBudget, faultBudget, tts, engineRate, realTimeAudioPlayer, requests, callerPc, chunkEvents, written, calls>>
    /\ UNCHANGED pureVars

\* ------------------------------------------------------------------ volume monitor
\* Android volumeUpdateRunnable.run(), when its delayed post comes due. It runs
\* on the main looper, as the posted sentinel blocks do, so it is one step with
\* respect to them.
VolumeUpdateRunnable(p) ==
    /\ platform = "android"
    /\ players[p].timer = "scheduled"
    /\ IF ~players[p].running
       THEN players' = [players EXCEPT ![p].timer = "ended"]
       ELSE LET kind == tickReport(players[p].volumesQueue, players[p].sentCompletion)
            IN  IF kind = "level"
                THEN players' = [players EXCEPT
                           ![p] = didUpdateVolume([@ EXCEPT !.volumesQueue = @ - 1], "level")]
                ELSE IF kind = "zero"
                THEN players' = [players EXCEPT ![p] = didUpdateVolume(@, "zero")]
                ELSE players' = [players EXCEPT ![p].quietTick = TRUE]
    /\ UNCHANGED <<platform, callBudget, faultBudget, tts, engineRate, realTimeAudioPlayer, requests, callerPc, mainQueue, chunkEvents, written, calls>>
    /\ UNCHANGED pureVars

\* iOS: the tap on the main mixer stores the RMS of the rendered block. A block
\* that stores the value currentVolume already has leaves the state as it is;
\* the step is taken when the value changes.
AudioTap(p) ==
    /\ platform = "ios"
    /\ players[p].device = "open"
    /\ players[p].currentVolume # (IF players[p].nodePlaying THEN "level" ELSE "zero")
    /\ players' = [players EXCEPT
           ![p].currentVolume = IF players[p].nodePlaying THEN "level" ELSE "zero"]
    /\ UNCHANGED <<platform, callBudget, faultBudget, tts, engineRate, realTimeAudioPlayer, requests, callerPc, mainQueue, chunkEvents, written, calls>>
    /\ UNCHANGED pureVars

\* iOS: the repeating volume timer fires and reports currentVolume.
VolumeTimer(p) ==
    /\ platform = "ios"
    /\ players[p].timer = "scheduled"
    /\ players' = [players EXCEPT ![p] = didUpdateVolume(@, players[p].currentVolume)]
    /\ UNCHANGED <<platform, callBudget, faultBudget, tts, engineRate, realTimeAudioPlayer, requests, callerPc, mainQueue, chunkEvents, written, calls>>
    /\ UNCHANGED pureVars

\* ------------------------------------------------------------------ playback worker
\* while (isRunning) / while isProcessing: the loop test.
Worker_check(p) ==
    /\ players[p].pc = "check"
    /\ players' = [players EXCEPT
           ![p].pc = IF ~players[p].running THEN "done"
                     ELSE IF platform = "android" THEN "take" ELSE "lock"]
    /\ UNCHANGED <<platform, callBudget, faultBudget, tts, engineRate, realTimeAudioPlayer, requests, callerPc, mainQueue, chunkEvents, written, calls>>
    /\ UNCHANGED pureVars

\* Android: val samples = audioQueue.take(). It blocks while the queue is empty
\* and throws InterruptedException (caught: break) when the thread is interrupted.
Worker_take(p) ==
    /\ players[p].pc = "take"
    /\ \/ /\ players[p].interrupted
          /\ players' = [players EXCEPT ![p].pc = "done"]
       \/ /\ ~players[p].interrupted
          /\ players[p].audioQueue # <<>>
          /\ players' = [players EXCEPT ![p].held = Head(players[p].audioQueue),
                                        ![p].audioQueue = removeFirst(@),
                                        ![p].pc = "accumulate"]
    /\ UNCHANGED <<platform, callBudget, faultBudget, tts, engineRate, realTimeAudioPlayer, requests, callerPc, mainQueue, chunkEvents, written, calls>>
    /\ UNCHANGED pureVars

\* Android: synchronized(this) { accumulationBuffer.addAll(samples);
\* processAccumulatedSamples() }: every full window of samplesPerChunk samples
\* leaves the buffer and puts one volume into volumesQueue.
Worker_accumulate(p) ==
    /\ players[p].pc = "accumulate"
    /\ LET size == players[p].accumulationBuffer + players[p].held.n
       IN  players' = [players EXCEPT
               ![p].accumulationBuffer = size % samplesPerChunk,
               ![p].volumesQueue = @ + (size \div samplesPerChunk),
               ![p].pc = "write"]
    /\ UNCHANGED <<platform, callBudget, faultBudget, tts, engineRate, realTimeAudioPlayer, requests, callerPc, mainQueue, chunkEvents, written, calls>>
    /\ UNCHANGED pureVars

\* Android: audioTrack?.write(samples, 0, samples.size, AudioTrack.WRITE_BLOCKING)
\* The value write returns is not looked at: after a failed write the thread
\* goes on to maybeSendCompletion as after any other.
Worker_write(p) ==
    /\ players[p].pc = "write"
    /\ \E ok \in writeSucceeds(faultBudget) :
         IF ok
         THEN /\ written' = Append(written, [p |-> p, r |-> players[p].held.r,
                                             k |-> players[p].held.k, sr |-> players[p].held.sr])
              /\ players' = [players EXCEPT
                     ![p].held = NoChunk, ![p].pc = "completion",
                     ![p].lateWrites = IF players[p].stopping THEN @ + 1 ELSE @]
              /\ UNCHANGED faultBudget
         ELSE /\ players' = [players EXCEPT
                     ![p].held = NoChunk, ![p].pc = "completion",
                     ![p].failedWrites = @ + 1]
              /\ faultBudget' = faultBudget - 1
              /\ UNCHANGED written
    /\ UNCHANGED <<platform, callBudget, tts, engineRate, realTimeAudioPlayer, requests, callerPc, mainQueue, chunkEvents, calls>>
    /\ UNCHANGED pureVars

\* Android: maybeSendCompletion()
Worker_maybeSendCompletion(p) ==
    /\ players[p].pc = "completion"
    /\ IF /\ ~players[p].sentCompletion
          /\ players[p].audioQueue = <<>>
          /\ players[p].accumulationBuffer = 0
       THEN /\ players' = [players EXCEPT ![p].sentCompletion = TRUE, ![p].pc = "check"]
            /\ mainQueue' = Append(mainQueue, Block("idle", p, 0, 0, 0))
       ELSE /\ players' = [players EXCEPT ![p].pc = "check"]
            /\ UNCHANGED mainQueue
    /\ UNCHANGED <<platform, callBudget, faultBudget, tts, engineRate, realTimeAudioPlayer, requests, callerPc, chunkEvents, written, calls>>
    /\ UNCHANGED pureVars

\* iOS: processAudioQueue() begins: isProcessing = true.
Worker_start(p) ==
    /\ players[p].pc = "start"
    /\ players' = [players EXCEPT ![p].running = TRUE, ![p].pc = "check"]
    /\ UNCHANGED <<platform, callBudget, faultBudget, tts, engineRate, realTimeAudioPlayer, requests, callerPc, mainQueue, chunkEvents, written, calls>>
    /\ UNCHANGED pureVars

\* iOS: queueLock.lock(); if the queue is not empty removeFirst() and
\* queueLock.unlock(). With an empty queue: unlock, usleep and the loop test
\* again.
Worker_removeFirst(p) ==
    /\ players[p].pc = "lock"
    /\ IF players[p].audioQueue # <<>>
       THEN players' = [players EXCEPT ![p].held = Head(players[p].audioQueue),
                                       ![p].audioQueue = removeFirst(@),
                                       ![p].pc = "schedule"]
       ELSE players' = [players EXCEPT ![p].pc = "check"]
    /\ UNCHANGED <<platform, callBudget, faultBudget, tts, engineRate, realTimeAudioPlayer, requests, callerPc, mainQueue, chunkEvents, written, calls>>
    /\ UNCHANGED pureVars

\* iOS: guard let audioBuffer = AVAudioPCMBuffer(...) else { print(...); continue };
\* audioPlayerNode.scheduleBuffer(audioBuffer, ...); if the node is not playing,
\* audioPlayerNode.play().
Worker_scheduleBuffer(p) ==
    /\ players[p].pc = "schedule"
    /\ \E ok \in writeSucceeds(faultBudget) :
         IF ok
         THEN /\ written' = Append(written, [p |-> p, r |-> players[p].held.r,
                                             k |-> players[p].held.k, sr |-> players[p].held.sr])
              /\ players' = [players EXCEPT
                     ![p].held = NoChunk, ![p].nodePlaying = TRUE, ![p].pc = "check",
                     ![p].lateWrites = IF players[p].stopping THEN @ + 1 ELSE @]
              /\ UNCHANGED faultBudget
         ELSE /\ players' = [players EXCEPT
                     ![p].held = NoChunk, ![p].pc = "check",
                     ![p].failedWrites = @ + 1]
              /\ faultBudget' = faultBudget - 1
              /\ UNCHANGED written
    /\ UNCHANGED <<platform, callBudget, tts, engineRate, realTimeAudioPlayer, requests, callerPc, mainQueue, chunkEvents, calls>>
    /\ UNCHANGED pureVars

\* ------------------------------------------------------------------ Spec
Init ==
    /\ SplitIdle
    /\ TrimIdle
    /\ LockIdle
    /\ MonitorIdle
    /\ platform \in Platforms
    /\ tts = FALSE
    /\ engineRate = 0
    /\ realTimeAudioPlayer = 0
    /\ players = <<>>
    /\ requests = <<>>
    /\ callerPc = Idle
    /\ mainQueue = <<>>
    /\ chunkEvents = <<>>
    /\ written = <<>>
    /\ calls = 0
    /\ callBudget = MaxCalls
    /\ faultBudget = 0

Next ==
    \/ InitializeTTS
    \/ Deinitialize_ios
    \/ Deinitialize_android
    \/ StopPlayer_interrupt
    \/ StopPlayer_join
    \/ GenerateAndPlay
    \/ PlaySegment
    \/ PlayResolve
    \/ Generate
    \/ \E r \in 1..Len(requests) : StreamSegment_ios(r)
    \/ \E r \in 1..Len(requests) : StreamChunk_ios(r)
    \/ \E r \in 1..Len(requests) : StreamFinish_ios(r)
    \/ GenerateSegment_android
    \/ GenerateResolve_android
    \/ Main_event
    \/ Main_resolve
    \/ Main_reject
    \/ Main_startVolumeTimer
    \/ Main_idleVolume
    \/ \E p \in 1..Len(players) : VolumeUpdateRunnable(p)
    \/ \E p \in 1..Len(players) : AudioTap(p)
    \/ \E p \in 1..Len(players) : VolumeTimer(p)
    \/ \E p \in 1..Len(players) : Worker_check(p)
    \/ \E p \in 1..Len(players) : Worker_take(p)
    \/ \E p \in 1..Len(players) : Worker_accumulate(p)
    \/ \E p \in 1..Len(players) : Worker_write(p)
    \/ \E p \in 1..Len(players) : Worker_maybeSendCompletion(p)
    \/ \E p \in 1..Len(players) : Worker_start(p)
    \/ \E p \in 1..Len(players) : Worker_removeFirst(p)
    \/ \E p \in 1..Len(players) : Worker_scheduleBuffer(p)

Spec == Init /\ [][Next]_vars

\* ------------------------------------------------------------------ FairSpec
\* The scheduling the platforms give: a thread that can take a step is
\* eventually run, the main queue runs the blocks submitted to it, a scheduled
\* timer keeps firing. Nothing obliges JavaScript to make another call.
CallerStep ==
    \/ StopPlayer_interrupt
    \/ StopPlayer_join
    \/ PlaySegment
    \/ PlayResolve
    \/ GenerateSegment_android
    \/ GenerateResolve_android

StreamStep(r) ==
    /\ r <= Len(requests)
    /\ (StreamSegment_ios(r) \/ StreamChunk_ios(r) \/ StreamFinish_ios(r))

MainStep ==
    \/ Main_event
    \/ Main_resolve
    \/ Main_reject
    \/ Main_startVolumeTimer
    \/ Main_idleVolume

WorkerStep(p) ==
    /\ p <= Len(players)
    /\ \/ Worker_check(p)
       \/ Worker_take(p)
       \/ Worker_accumulate(p)
       \/ Worker_write(p)
       \/ Worker_maybeSendCompletion(p)
       \/ Worker_start(p)
       \/ Worker_removeFirst(p)
       \/ Worker_scheduleBuffer(p)

TimerStep(p) ==
    /\ p <= Len(players)
    /\ (VolumeUpdateRunnable(p) \/ VolumeTimer(p) \/ AudioTap(p))

Fairness ==
    /\ WF_vars(CallerStep)
    /\ WF_vars(MainStep)
    /\ \A r \in 1..MaxCalls : WF_vars(StreamStep(r))
    /\ \A p \in 1..MaxCalls : WF_vars(WorkerStep(p))
    /\ \A p \in 1..MaxCalls : WF_vars(TimerStep(p))

\* The behaviours checked for progress make at most MaxFairCalls calls.
FairInit ==
    /\ SplitIdle
    /\ TrimIdle
    /\ LockIdle
    /\ MonitorIdle
    /\ platform \in Platforms
    /\ tts = FALSE
    /\ engineRate = 0
    /\ realTimeAudioPlayer = 0
    /\ players = <<>>
    /\ requests = <<>>
    /\ callerPc = Idle
    /\ mainQueue = <<>>
    /\ chunkEvents = <<>>
    /\ written = <<>>
    /\ calls = 0
    /\ callBudget = MaxFairCalls
    /\ faultBudget = 0

FairSpec == FairInit /\ [][Next]_vars /\ Fairness

\* ------------------------------------------------------------------ ReplaceSpec
\* The behaviours of at most MaxCalls calls that begin with the module as
\* constructed, or as a first initializeTTS has left it with a model of the
\* player's sample rate loaded.
ReplaceInit ==
    /\ SplitIdle
    /\ TrimIdle
    /\ LockIdle
    /\ MonitorIdle
    /\ platform \in Platforms
    /\ \/ /\ tts = FALSE
          /\ engineRate = 0
          /\ realTimeAudioPlayer = 0
          /\ players = <<>>
          /\ mainQueue = <<>>
       \/ /\ tts = TRUE
          /\ engineRate = SampleRate
          /\ realTimeAudioPlayer = 1
          /\ players = <<newPlayer(platform)>>
          /\ mainQueue = IF platform = "ios" THEN <<Block("startTimer", 1, 0, 0, 0)>> ELSE <<>>
    /\ requests = <<>>
    /\ callerPc = Idle
    /\ chunkEvents = <<>>
    /\ written = <<>>
    /\ calls = 0
    /\ callBudget = MaxCalls
    /\ faultBudget = 0

ReplaceSpec == ReplaceInit /\ [][Next]_vars

\* ------------------------------------------------------------------ FaultSpec
\* The behaviours in which device writes fail: at most MaxFaultCalls calls, at
\* most MaxFaults failing writes, under the same scheduling.
FaultInit ==
    /\ SplitIdle
    /\ TrimIdle
    /\ LockIdle
    /\ MonitorIdle
    /\ platform \in Platforms
    /\ tts = FALSE
    /\ engineRate = 0
    /\ realTimeAudioPlayer = 0
    /\ players = <<>>
    /\ requests = <<>>
    /\ callerPc = Idle
    /\ mainQueue = <<>>
    /\ chunkEvents = <<>>
    /\ written = <<>>
    /\ calls = 0
    /\ callBudget = MaxFaultCalls
    /\ faultBudget = MaxFaults

FaultSpec == FaultInit /\ [][Next]_vars /\ Fairness

\* ------------------------------------------------------------------ properties
\* The whitespace-separated words of a string.
Words(s) == filterNotEmpty(components(s))

RECURSIVE ConcatWords(_)
ConcatWords(segs) ==
    IF segs = <<>> THEN <<>> ELSE Words(Head(segs)) \o ConcatWords(Tail(segs))

IsPrefix(a, b) == Len(a) <= Len(b) /\ a = SubSeq(b, 1, Len(a))

\* The AudioChunkGenerated events of request r, in the order delivered.
EventsOf(r) ==
    LET mine == SelectSeq(chunkEvents, LAMBDA e : e.r = r)
    IN  [i \in 1..Len(mine) |-> [r |-> mine[i].r, index |-> mine[i].index, total |-> mine[i].total]]

\* The events a stream-mode request r of n segments is to deliver.
ExpectedEvents(r, n) == [i \in 1..n |-> [r |-> r, index |-> i - 1, total |-> n]]

\* Request r has left no trace beyond its own record: nothing waits on the main
\* queue for it, and no chunk of it is queued, held by a worker or written.
NoTraceOf(r) ==
    /\ EventsOf(r) = <<>>
    /\ \A i \in 1..Len(mainQueue) : mainQueue[i].r # r
    /\ \A i \in 1..Len(written) : written[i].r # r
    /\ \A p \in 1..Len(players) :
         /\ players[p].held.r # r
         /\ \A i \in 1..Len(players[p].audioQueue) : players[p].audioQueue[i].r # r

\* C1 (SplitSpec): when splitText returns, the words of its segments, concatenated
\* in order, are exactly the words of the input text.
C1_WordsPreserved ==
    splitPc = "returned" => ConcatWords(sentences) = Words(splitInput)

\* C5 (SplitSpec): no segment is empty and no segment has more than maxWords words.
C5_SegmentsBounded ==
    \A i \in 1..Len(sentences) :
        /\ sentences[i] # <<>>
        /\ Len(Words(sentences[i])) >= 1
        /\ Len(Words(sentences[i])) <= splitMaxWords

\* C5 witness: a finished split into several segments, one of them a full window.
C5_Witness ==
    /\ splitPc = "returned"
    /\ splitMaxWords >= 2
    /\ Len(sentences) >= 2
    /\ \E i \in 1..Len(sentences) : Len(Words(sentences[i])) = splitMaxWords

\* C2: the chunks of one request reach the device, and its events reach
\* JavaScript, in segment order: an earlier entry of the same request always has
\* the smaller index.
C2_ChunksInOrder ==
    /\ \A i, j \in 1..Len(written) :
         (i < j /\ written[i].r = written[j].r) => written[i].k < written[j].k
    /\ \A i, j \in 1..Len(chunkEvents) :
         (i < j /\ chunkEvents[i].r = chunkEvents[j].r) => chunkEvents[i].index < chunkEvents[j].index

\* C2 witness: two chunks of one play-mode request have been written and two
\* events of one stream-mode request have been delivered.
C2_Witness ==
    /\ \E i, j \in 1..Len(written) : i < j /\ written[i].r = written[j].r
    /\ \E i, j \in 1..Len(chunkEvents) : i < j /\ chunkEvents[i].r = chunkEvents[j].r

\* C3: a stream-mode request on which the engine never fails delivers exactly the
\* events 0..N-1 with total N, in order, and resolves with {success, totalChunks: N}
\* only when all of them have been delivered.
C3_StreamEmitsAll ==
    \A r \in 1..Len(requests) :
        (requests[r].mode = "stream" /\ trim(requests[r].text) # <<>> /\ requests[r].failed = {}) =>
            /\ IsPrefix(EventsOf(r), ExpectedEvents(r, Len(requests[r].sentences)))
            /\ requests[r].native = "resolved" =>
                 /\ EventsOf(r) = ExpectedEvents(r, Len(requests[r].sentences))
                 /\ requests[r].resultKind = "chunks"
                 /\ requests[r].totalChunks = Len(requests[r].sentences)

\* C3 on the iOS module alone.
C3_StreamEmitsAll_ios == platform = "ios" => C3_StreamEmitsAll

HelloFirst == SubSeq(HelloText, 1, 12)
HelloSecond == SubSeq(HelloText, 14, 28)

\* C4 as claimed: the scenario text splits into "Hello world." and "This is a
\* test.", and its stream-mode call delivers 2 events and resolves with 2.
C4_Original ==
    \A r \in 1..Len(requests) :
        requests[r].text = HelloText =>
            /\ requests[r].sentences = <<HelloFirst, HelloSecond>>
            /\ (requests[r].mode = "stream" /\ requests[r].native = "resolved") =>
                 /\ EventsOf(r) = ExpectedEvents(r, 2)
                 /\ requests[r].totalChunks = 2

\* C4 as amended: the scenario text is one segment, the whole text; the iOS
\* stream-mode call delivers the one event (index 0, total 1) and, when it
\* resolves, has delivered it and resolves with totalChunks = 1.
C4_OneSegment ==
    \A r \in 1..Len(requests) :
        requests[r].text = HelloText =>
            /\ requests[r].sentences = <<HelloText>>
            /\ (platform = "ios" /\ requests[r].mode = "stream") =>
                 /\ IsPrefix(EventsOf(r), ExpectedEvents(r, 1))
                 /\ requests[r].native = "resolved" =>
                      /\ EventsOf(r) = ExpectedEvents(r, 1)
                      /\ requests[r].resultKind = "chunks"
                      /\ requests[r].totalChunks = 1

\* C4 witness: an iOS stream-mode call with the scenario text has resolved.
C4_Witness ==
    /\ platform = "ios"
    /\ \E r \in 1..Len(requests) :
         /\ requests[r].text = HelloText
         /\ requests[r].mode = "stream"
         /\ requests[r].native = "resolved"

\* C6: once the engine has returned no result for segment k of a request, no later
\* segment of the request is attempted and the request does not resolve.
C6_FailureAborts ==
    \A r \in 1..Len(requests) :
        \A k \in requests[r].failed :
            /\ requests[r].next <= k + 1
            /\ requests[r].native # "resolved"

\* C7: a generate call with empty or whitespace-only text is rejected with
\* EMPTY_TEXT from the start; the engine is not called for it, nothing of it is
\* emitted, dispatched or enqueued, and it never resolves.
C7_EmptyGenerateRejected ==
    \A r \in 1..Len(requests) :
        (requests[r].mode = "stream" /\ trim(requests[r].text) = <<>>) =>
            /\ requests[r].native = "rejected"
            /\ requests[r].code = "EMPTY_TEXT"
            /\ requests[r].next = 0
            /\ requests[r].task = "none"
            /\ callerPc # <<"generate", r>>
            /\ NoTraceOf(r)

\* C7 witness: generate was called with whitespace-only text while an engine
\* and a player exist.
C7_Witness ==
    /\ tts
    /\ realTimeAudioPlayer # 0
    /\ \E r \in 1..Len(requests) :
         /\ requests[r].mode = "stream"
         /\ requests[r].text = <<" ">>
         /\ requests[r].native = "rejected"

\* C8: a generateAndPlay call with empty or whitespace-only text rejects the
\* promise of the exported JavaScript function, with no engine call or enqueue.
C8_EmptyPlayRejectsInJs ==
    \A r \in 1..Len(requests) :
        (requests[r].mode = "play" /\ trim(requests[r].text) = <<>>) =>
            /\ requests[r].js = "rejected"
            /\ requests[r].next = 0
            /\ NoTraceOf(r)

\* C9: after stop has been entered a player writes at most one more chunk, and
\* after stop has returned it writes none.
C9_NoWriteAfterStop ==
    /\ [](\A p \in 1..Len(players) : players[p].lateWrites <= 1)
    /\ [][\A i \in 1..Len(written') :
            i > Len(written) => ~players[written'[i].p].stopped]_vars

\* C9 on the Android module alone.
C9_NoWriteAfterStop_android ==
    /\ [](platform = "android" => \A p \in 1..Len(players) : players[p].lateWrites <= 1)
    /\ [][platform = "android" =>
            \A i \in 1..Len(written') :
               i > Len(written) => ~players[written'[i].p].stopped]_vars

\* C10: a player whose stop has returned has an empty queue.
C10_QueueEmptyAfterStop ==
    \A p \in 1..Len(players) : players[p].stopped => players[p].audioQueue = <<>>

\* Some block of player p still waits on the main queue.
PendingFor(p) == \E i \in 1..Len(mainQueue) : mainQueue[i].p = p

\* C11: once deinitialize has stopped a player, the host receives exactly one idle
\* sentinel from it and nothing after that sentinel: no volume event follows a
\* sentinel delivered since stop began, and when stop has returned and nothing of
\* the player waits on the main queue the one sentinel has been delivered.
C11_OneIdleOnStop ==
    \A p \in 1..Len(players) :
        /\ players[p].stopTrail # "extra"
        /\ (players[p].stopped /\ ~PendingFor(p)) => players[p].stopTrail = "idle"

\* C11 on the Android module alone.
C11_OneIdleOnStop_android == platform = "android" => C11_OneIdleOnStop

\* C11 on the Android module, the part that speaks of the sentinel being sent.
C11_IdleSentOnStop_android ==
    platform = "android" =>
        \A p \in 1..Len(players) :
            (players[p].stopped /\ ~PendingFor(p)) => players[p].stopTrail # "none"

\* C12: a player that has written its last chunk and has an empty queue delivers
\* the idle sentinel, and delivers it once only, until new audio is enqueued.
C12_IdleOnceAfterDrain ==
    /\ [](\A p \in 1..Len(players) : players[p].idleSinceDrain <= 1)
    /\ \A p \in 1..MaxCalls :
         (p <= Len(players) /\ players[p].enqueuedCount > 0 /\ Drained(players[p]))
           ~> (p <= Len(players) /\ (players[p].idleSinceDrain >= 1 \/ ~Drained(players[p])))

\* C12, the part that says the sentinel is eventually delivered.
C12_IdleEventually ==
    \A p \in 1..MaxCalls :
        (p <= Len(players) /\ players[p].enqueuedCount > 0 /\ Drained(players[p]))
          ~> (p <= Len(players) /\ (players[p].idleSinceDrain >= 1 \/ ~Drained(players[p])))

\* C12, the part that says the sentinel is not delivered twice.
C12_IdleAtMostOnce ==
    \A p \in 1..Len(players) : players[p].idleSinceDrain <= 1

\* C12, eventual delivery on the Android module alone.
C12_IdleEventually_android ==
    \A p \in 1..MaxCalls :
        (platform = "android" /\ p <= Len(players) /\ players[p].enqueuedCount > 0
           /\ Drained(players[p]))
          ~> (p <= Len(players) /\ (players[p].idleSinceDrain >= 1 \/ ~Drained(players[p])))

\* C14: no chunk whose sample rate differs from the rate the player was
\* configured with is accepted: none is queued, held or written by a player, and no
\* chunk event labels audio with a rate that is not the audio's.
C14_NoWrongRate ==
    /\ \A i \in 1..Len(written) : written[i].sr = SampleRate
    /\ \A p \in 1..Len(players) :
         /\ players[p].held # NoChunk => players[p].held.sr = SampleRate
         /\ \A i \in 1..Len(players[p].audioQueue) : players[p].audioQueue[i].sr = SampleRate
    /\ \A i \in 1..Len(chunkEvents) : chunkEvents[i].audioRate = chunkEvents[i].sampleRate

\* C14 on the Android module alone, with the outcome of the failed call: the
\* request is rejected and nothing of it was enqueued.
C14_NoWrongRate_android ==
    platform = "android" =>
        /\ C14_NoWrongRate
        /\ \A r \in 1..Len(requests) :
             (requests[r].mode = "play" /\ requests[r].code = "GENERATION_ERROR") =>
                 /\ requests[r].native = "rejected"
                 /\ \A p \in 1..Len(players) :
                      /\ players[p].held.r # r
                      /\ \A i \in 1..Len(players[p].audioQueue) : players[p].audioQueue[i].r # r

\* C15: at most one call to the engine is in progress at any time.
C15_OneEngineCall ==
    Cardinality({r \in 1..Len(requests) : requests[r].engineCall # 0}) <= 1

\* C15 on the Android module alone.
C15_OneEngineCall_android == platform = "android" => C15_OneEngineCall

\* Chunk k of request r is in the queue of a player, held by its worker, or written.
Enqueued(r, k) ==
    \/ \E i \in 1..Len(written) : written[i].r = r /\ written[i].k = k
    \/ \E p \in 1..Len(players) :
         \/ (players[p].held.r = r /\ players[p].held.k = k)
         \/ \E i \in 1..Len(players[p].audioQueue) :
              players[p].audioQueue[i].r = r /\ players[p].audioQueue[i].k = k

\* C16: when generateAndPlay resolves, every segment of the request has been
\* synthesized and its chunk is in the queue or already written.
C16_ResolvedMeansEnqueued ==
    \A r \in 1..Len(requests) :
        (requests[r].mode = "play" /\ requests[r].native = "resolved") =>
            \A k \in 0..(Len(requests[r].sentences) - 1) : Enqueued(r, k)

\* C16 for the calls on which the engine returned audio for every segment.
C16_ResolvedMeansEnqueued_noFailure ==
    \A r \in 1..Len(requests) :
        (requests[r].mode = "play" /\ requests[r].native = "resolved" /\ requests[r].failed = {}) =>
            \A k \in 0..(Len(requests[r].sentences) - 1) : Enqueued(r, k)

\* The same on the Android module alone.
C16_ResolvedMeansEnqueued_noFailure_android ==
    platform = "android" => C16_ResolvedMeansEnqueued_noFailure

\* The number of chunks player p has handed to the device.
WrittenBy(p) == Cardinality({i \in 1..Len(written) : written[i].p = p})

\* Every chunk ever enqueued into player p is in its queue, held by its worker or
\* written, and no chunk was written twice.
ChunksConserved ==
    /\ \A p \in 1..Len(players) :
         players[p].enqueuedCount =
             Len(players[p].audioQueue)
             + (IF players[p].held = NoChunk THEN 0 ELSE 1)
             + WrittenBy(p)
    /\ \A i, j \in 1..Len(written) :
         (i < j) => ~(written[i].r = written[j].r /\ written[i].k = written[j].k)

C13_NoZeroAfterCompletion ==
    \A p \in 1..Len(players) : ~players[p].zeroAfterCompletion

\* C13 witness: completion has been signalled, nothing was enqueued since, and a
\* tick of the still scheduled timer found no pending volume and reported nothing.
C13_Witness ==
    \E p \in 1..Len(players) :
        /\ players[p].signalled
        /\ players[p].sentCompletion
        /\ players[p].running
        /\ players[p].timer = "scheduled"
        /\ players[p].volumesQueue = 0
        /\ players[p].quietTick

\* ------------------------------------------------------------------ trim properties
\* The segment whose chunk was emitted is the last one of its request.
TrimFinal == trimIndex = trimCount - 1

\* C18: the chunk emitted for a segment that is not the last one holds exactly
\* the samples the engine returned.
C18_TrimOnlyFinal ==
    (trimPc = "emitted" /\ ~TrimFinal) => emittedSamples = audioSamples

\* The same for the generate of ios/SherpaOnnxOfflineTts.swift alone.
C18_TrimOnlyFinal_single ==
    (trimFile = "SherpaOnnxOfflineTts.swift") => C18_TrimOnlyFinal

\* C19: a last segment with no sample above the silence threshold is emitted
\* with all the samples the engine returned.
C19_SilentUnchanged ==
    (/\ trimPc = "emitted"
     /\ TrimFinal
     /\ ~foundSignificantAudio(audioSamples, silenceThreshold(trimFile)))
        => (Len(emittedSamples) = Len(audioSamples) /\ emittedSamples = audioSamples)

\* C19 witness: a silent last segment of several samples, not all of them zero,
\* has been emitted by the two-pass generate with a buffer shorter than the audio.
C19_Witness ==
    /\ trimPc = "emitted"
    /\ TrimFinal
    /\ trimFile = "part_003"
    /\ Len(audioSamples) > bufferSamples(trimRate, 8) + 1
    /\ ~foundSignificantAudio(audioSamples, silenceThreshold(trimFile))
    /\ Len(emittedSamples) = Len(audioSamples)

\* C20: no idle sentinel is delivered from a player while a chunk is queued in
\* it or being written and no stop was issued: during active playback every
\* volume event is a level or 0.
C20_NoIdleWhileActive ==
    \A p \in 1..Len(players) : ~players[p].activeIdle

\* The level the Android monitor computes for a window of samples within full
\* scale lies between 0 and 1 (1000 thousandths).
VolumeInRange ==
    (trimPc # "idle") => (volumeOf(audioSamples) >= 0 /\ volumeOf(audioSamples) <= 1000)

\* ------------------------------------------------------------------ cleanup
\* deinitialize has just returned for player p in this step.
DeinitializeExits(p) == ~players[p].stopped /\ players'[p].stopped

\* C21: when deinitialize exits, the worker of the player it stopped has
\* terminated, its timer is cancelled (not scheduled and not about to be
\* started), its device is closed, its queue is empty, and the module holds
\* neither a player nor an engine.
C21_FullCleanup ==
    [][\A p \in 1..Len(players) :
          DeinitializeExits(p) =>
              /\ players'[p].pc = "done"
              /\ players'[p].timer # "scheduled"
              /\ ~\E i \in 1..Len(mainQueue') :
                     mainQueue'[i].kind = "startTimer" /\ mainQueue'[i].p = p
              /\ players'[p].device # "open"
              /\ players'[p].audioQueue = <<>>
              /\ realTimeAudioPlayer' = 0
              /\ ~tts']_vars

\* What the Android deinitialize does achieve when no step of it raises:
\* everything but the cleared queue.
C21_CleanupButQueue_android ==
    [][platform = "android" =>
          \A p \in 1..Len(players) :
             DeinitializeExits(p) =>
                 /\ players'[p].pc = "done"
                 /\ players'[p].timer # "scheduled"
                 /\ players'[p].device # "open"
                 /\ realTimeAudioPlayer' = 0
                 /\ ~tts']_vars

\* ------------------------------------------------------------------ failing writes
\* Every chunk ever enqueued into a player is in its queue, held by its worker,
\* written, or was dropped by a failed write; none was written twice.
ChunksAccounted ==
    /\ \A p \in 1..Len(players) :
         players[p].enqueuedCount =
             Len(players[p].audioQueue)
             + (IF players[p].held = NoChunk THEN 0 ELSE 1)
             + WrittenBy(p)
             + players[p].failedWrites
    /\ \A i, j \in 1..Len(written) :
         (i < j) => ~(written[i].r = written[j].r /\ written[i].k = written[j].k)

\* The chunks of one request reach the device in the order of their segments.
WrittenInOrder ==
    \A i, j \in 1..Len(written) :
        (i < j /\ written[i].p = written[j].p /\ written[i].r = written[j].r)
            => written[i].k < written[j].k

\* C22: a chunk whose device write failed is dropped, not retried, and the
\* error is reported upward; the worker goes on to write the chunks behind it,
\* in queue order, until everything enqueued is written or dropped.
C22_FailedWriteReported ==
    /\ [](\A p \in 1..Len(players) :
             players[p].reportedErrors >= players[p].failedWrites)
    /\ [](ChunksAccounted /\ WrittenInOrder)
    /\ \A p \in 1..MaxFaultCalls :
         []<>(\/ p > Len(players)
              \/ players[p].stopping
              \/ (/\ Drained(players[p])
                  /\ WrittenBy(p) + players[p].failedWrites = players[p].enqueuedCount))

\* What both workers do achieve after a failed write: the chunk is dropped and
\* not retried, and the worker goes on with the chunks behind it, in order.
C22_DroppedAndGoesOn ==
    /\ [](ChunksAccounted /\ WrittenInOrder)
    /\ \A p \in 1..MaxFaultCalls :
         []<>(\/ p > Len(players)
              \/ players[p].stopping
              \/ (/\ Drained(players[p])
                  /\ WrittenBy(p) + players[p].failedWrites = players[p].enqueuedCount))

\* A write failed for the first chunk of a request and the chunk behind it has
\* been written.
C22_Reached ==
    \E p \in 1..Len(players) :
        /\ players[p].failedWrites = 1
        /\ WrittenBy(p) = 1
        /\ written[1].k = 1
        /\ Drained(players[p])

\* ------------------------------------------------------------------ queue accesses
\* C23: no two functions are inside a statement that touches audioQueue at the
\* same time.
C23_QueueAccessExclusive ==
    \A a, b \in QueueUsers : (touchesQueue(a) /\ touchesQueue(b)) => a = b

\* The producer and the worker, which both take queueLock, exclude each other.
C23_LockedAccessExclusive ==
    ~(touchesQueue("playAudioData") /\ touchesQueue("processAudioQueue"))

\* ------------------------------------------------------------------ the cut rule
\* The window the loop of splitText looks at when the cursor is at currentIndex:
\* up to splitMaxWords words, joined by single spaces.
WindowEnd == Min(currentIndex + splitMaxWords, Len(Words(splitInput)))

Window == joined(SubSeq(Words(splitInput), currentIndex + 1, WindowEnd))

\* The position in the window after which the claim has splitText cut: the
\* rightmost period if there is one, else the rightmost comma, else the end.
Rightmost(s, c) ==
    LET at == {i \in 1..Len(s) : s[i] = c}
    IN  CHOOSE i \in at : \A j \in at : j <= i

CutAfter ==
    IF \E i \in 1..Len(Window) : Window[i] = "." THEN Rightmost(Window, ".")
    ELSE IF \E i \in 1..Len(Window) : Window[i] = "," THEN Rightmost(Window, ",")
    ELSE Len(Window)

\* Every period and comma of the text is the last character of its word.
PunctuationEndsWords(s) ==
    \A i \in 1..Len(s) :
        (s[i] \in {".", ","}) => (i = Len(s) \/ IsWhitespace(s[i + 1]))

\* One iteration has appended a segment.
SegmentAppended == splitPc = "loop" /\ sentences' # sentences

\* The segment appended is the window up to the cut, and with no period and no
\* comma in the window it is the whole window.
CutIsRightmost ==
    /\ sentences' = Append(sentences, trim(SubSeq(Window, 1, CutAfter)))
    /\ (~\E i \in 1..Len(Window) : Window[i] \in {".", ","}) =>
           /\ sentences'[Len(sentences')] = Window
           /\ Len(Words(Window)) = Min(splitMaxWords, Len(Words(splitInput)) - currentIndex)

\* What is left for the following windows is what follows the cut: the rest of
\* the window, then the words behind the window.
NextWindowAfterCut ==
    SubSeq(Words(splitInput), currentIndex' + 1, Len(Words(splitInput)))
        = Words(SubSeq(Window, CutAfter + 1, Len(Window)))
            \o SubSeq(Words(splitInput), WindowEnd + 1, Len(Words(splitInput)))

\* C24: every iteration of splitText cuts its window after the rightmost period,
\* else after the rightmost comma, else emits the whole window, and the next
\* window starts with the first word after the cut.
C24_CutAtRightmost ==
    [][SegmentAppended => (CutIsRightmost /\ NextWindowAfterCut)]_vars

\* The choice of the cut alone.
C24_CutRule ==
    [][SegmentAppended => CutIsRightmost]_vars

\* C24 for the texts in which no period or comma stands inside a word.
C24_CutAtRightmost_wordEnd ==
    [][(SegmentAppended /\ PunctuationEndsWords(splitInput))
          => (CutIsRightmost /\ NextWindowAfterCut)]_vars

\* ------------------------------------------------------------------ stream failure
\* The event blocks of request r that still wait on the main queue, as events.
PendingEventsOf(r) ==
    LET mine == SelectSeq(mainQueue, LAMBDA b : b.kind = "event" /\ b.r = r)
    IN  [i \in 1..Len(mine) |-> [r |-> r, index |-> mine[i].index, total |-> mine[i].total]]

\* The segment at which stream-mode request r failed.
FailedAt(r) == CHOOSE k \in requests[r].failed : \A j \in requests[r].failed : k <= j

\* The loop over the segments of stream-mode request r is over.
StreamLoopOver(r) ==
    /\ requests[r].task # "running"
    /\ callerPc # <<"generate", r>>

C26_WorkerTerminates ==
    \A p \in 1..MaxFairCalls :
        (p <= Len(players) /\ players[p].stopping)
            ~> (p <= Len(players) /\ players[p].pc = "done")

\* C26 on the Android module alone.
C26_WorkerTerminates_android ==
    \A p \in 1..MaxFairCalls :
        (platform = "android" /\ p <= Len(players) /\ players[p].stopping)
            ~> (p <= Len(players) /\ players[p].pc = "done")

\* ------------------------------------------------------------------ trimmed length
\* The chunk of a last segment with significant audio has been emitted by the
\* single-pass generate of ios/SherpaOnnxOfflineTts.swift.
TrimmedFinal ==
    /\ trimPc = "emitted"
    /\ trimFile = "SherpaOnnxOfflineTts.swift"
    /\ TrimFinal
    /\ \E i \in 1..Len(audioSamples) : abs(audioSamples[i]) > 10

\* L: the largest index, counted from 0, of a sample above 0.01.
LastSignificant ==
    LET above == {i \in 0..(Len(audioSamples) - 1) : abs(audioSamples[i + 1]) > 10}
    IN  CHOOSE i \in above : \A j \in above : j <= i

\* B: floor(sampleRate * 0.01).
TenMilliseconds == trimRate \div 100

\* C27: the chunk emitted for a last segment of n samples with a sample above
\* the silence threshold is the prefix of the engine output of length
\* min(L + 1 + B, n); its length is between 1 and n and every sample above the
\* threshold is kept in its place.
C27_TrimmedLength ==
    TrimmedFinal =>
        LET n == Len(audioSamples)
            kept == Min(LastSignificant + 1 + TenMilliseconds, n)
        IN  /\ emittedSamples = SubSeq(audioSamples, 1, kept)
            /\ Len(emittedSamples) >= 1
            /\ Len(emittedSamples) <= n
            /\ \A i \in 1..n : abs(audioSamples[i]) > 10 =>
                   (i <= Len(emittedSamples) /\ emittedSamples[i] = audioSamples[i])

\* C27 witness: a last segment whose significant audio is followed by more
\* samples than the buffer holds has been emitted shorter than the engine output
\* and longer than its significant audio.
C27_Witness ==
    /\ TrimmedFinal
    /\ TenMilliseconds >= 1
    /\ Len(emittedSamples) < Len(audioSamples)
    /\ Len(emittedSamples) > LastSignificant + 1

\* ------------------------------------------------------------------ text for the engine
\* The sentence ends with the sentence terminator the segmenter cuts at.
EndsWithTerminator(s) == s # <<>> /\ s[Len(s)] = "."

\* C28: the text handed to the engine for a segment is the segment itself when
\* it ends with a period and the segment followed by one period otherwise, and
\* the rule applied to its own result changes nothing.
C28_TerminatorAppendedOnce ==
    \A i \in 1..Len(processed) :
        /\ EndsWithTerminator(sentences[i]) => processed[i] = sentences[i]
        /\ ~EndsWithTerminator(sentences[i]) => processed[i] = sentences[i] \o <<".">>
        /\ processedSentence(processed[i]) = processed[i]

\* C28 witness: of two segments handed to the engine the first ended with a
\* period and was passed as it is, and the second did not and got one.
C28_Witness ==
    /\ Len(processed) = 2
    /\ EndsWithTerminator(sentences[1])
    /\ processed[1] = sentences[1]
    /\ ~EndsWithTerminator(sentences[2])
    /\ Len(processed[2]) = Len(sentences[2]) + 1

\* ------------------------------------------------------------------ accumulation monitor
\* stopPlayer has not yet cleared the buffer and the volumes.
BeforeStopClears == monitor.stopPc # "stopped"

\* C29: the accumulation buffer always holds fewer than samplesPerChunk samples
\* once the playback thread has processed a chunk, and until stopPlayer clears
\* it the samples taken from the queue and processed are samplesPerChunk for
\* each volume ever offered plus the samples still in the buffer.
C29_WindowAccounting ==
    /\ Len(monitor.accumulationBuffer) < samplesPerChunk
    /\ (BeforeStopClears /\ monitor.threadPc # "accumulate") =>
           monitor.dequeued = samplesPerChunk * Len(monitor.pushed)
                                  + Len(monitor.accumulationBuffer)

\* C29 witness: the thread has processed a chunk that filled more than one
\* window and left a partial one, and stopPlayer has not begun.
C29_Witness ==
    /\ monitor.stopPc = "none"
    /\ monitor.threadPc = "write"
    /\ Len(monitor.takenSamples) > 2 * samplesPerChunk
    /\ Len(monitor.pushed) >= 2
    /\ Len(monitor.accumulationBuffer) = 1
    /\ monitor.dequeued = samplesPerChunk * Len(monitor.pushed) + 1

\* ------------------------------------------------------------------ timer ticks
\* A step of volumeUpdateRunnable.
Ticked == monitor'.toTick # monitor.toTick

\* The number of events the step hands to the delegate.
Reported == Len(monitor'.delivered) - Len(monitor.delivered)

\* The last event handed to the delegate once the step is done.
LastReported == monitor'.delivered[Len(monitor'.delivered)]

IsLevel(event) == event.kind = "level"

\* The computed volumes among the events delivered, in the order of delivery.
LevelValues(events) ==
    LET levels == SelectSeq(events, IsLevel)
    IN  [i \in 1..Len(levels) |-> levels[i].value]

\* C30: a timer tick hands at most one event to the delegate; a volume it
\* reports is the oldest pending one and leaves the queue, so that the volumes
\* delivered are, in order, the first volumes offered, none twice; and a tick
\* reports 0 only when no volume is pending and sentCompletion is not set.
C30_TickReportsInOrder ==
    /\ [][Ticked =>
            /\ Reported <= 1
            /\ (Reported = 1 /\ LastReported.kind = "level") =>
                   /\ monitor.volumesQueue # <<>>
                   /\ LastReported.value = Head(monitor.volumesQueue)
                   /\ monitor'.volumesQueue = Tail(monitor.volumesQueue)
            /\ (Reported = 1 /\ LastReported.kind = "zero") =>
                   (monitor.volumesQueue = <<>> /\ ~monitor.sentCompletion)
            /\ (Reported = 1) => LastReported.kind # "idle"]_vars
    /\ [](IsPrefix(LevelValues(monitor.delivered), monitor.pushed))

\* C30 witness: ticks have reported a 0 and then, one each, two different
\* volumes of more than two that are or were pending.
C30_Witness ==
    /\ Len(monitor.delivered) >= 3
    /\ monitor.delivered[1].kind = "zero"
    /\ Len(LevelValues(monitor.delivered)) = 2
    /\ LevelValues(monitor.delivered)[1] # LevelValues(monitor.delivered)[2]
    /\ Len(monitor.pushed) > 2

\* ------------------------------------------------------------------ promises
\* The native method of request r has not finished with its promise: its loop
\* runs on the caller's thread or in the dispatched closure, or the block that
\* settles the promise waits on the main queue.
InProgress(r) ==
    \/ callerPc = <<"play", r>>
    \/ callerPc = <<"generate", r>>
    \/ requests[r].task = "running"
    \/ \E i \in 1..Len(mainQueue) :
           mainQueue[i].r = r /\ mainQueue[i].kind \in {"resolve", "reject"}

C31_EventuallySettled ==
    \A r \in 1..MaxFairCalls :
        (r <= Len(requests)) ~> (r <= Len(requests) /\ requests[r].native # "pending")

C32_FlagImpliesQueueEmpty ==
    (monitor.enqueuePc = <<>> /\ monitor.sentCompletion) => monitor.audioQueue = <<>>

\* ------------------------------------------------------------------ events after the sentinel
\* C33: once a -1 has been delivered, and until the next enqueueAudioData call,
\* no timer tick reports a volume or a 0: the volumes computed from a chunk are
\* all reported before the sentinel of its drain.
C33_NothingAfterSentinel ==
    [][(Ticked /\ Reported = 1) => ~monitor.idleDelivered]_vars

\* ------------------------------------------------------------------ one player at a time
\* The worker of player p has not left its loop.
WorkerActive(p) == players[p].pc # "done"

\* The volume timer of player p is scheduled, or its start waits on the main queue.
TimerActive(p) ==
    \/ players[p].timer = "scheduled"
    \/ \E i \in 1..Len(mainQueue) : mainQueue[i].kind = "startTimer" /\ mainQueue[i].p = p

\* No initializeTTS or deinitialize call is running and the last of them was a
\* deinitialize (or there was none): only deinitialize clears realTimeAudioPlayer.
AfterDeinitialize == realTimeAudioPlayer = 0 /\ callerPc[1] \notin {"interrupt", "join"}

\* C34: after any sequence of initializeTTS and deinitialize calls at most one
\* playback worker and at most one volume timer are active, and none after a
\* sequence that ends with deinitialize.
C34_AtMostOneActive ==
    /\ Cardinality({p \in 1..Len(players) : WorkerActive(p)}) <= 1
    /\ Cardinality({p \in 1..Len(players) : TimerActive(p)}) <= 1
    /\ AfterDeinitialize => \A p \in 1..Len(players) : ~WorkerActive(p) /\ ~TimerActive(p)

\* C34 for the sequences in which no initializeTTS follows another without a
\* deinitialize in between, on Android.
C34_AtMostOneActive_alternating ==
    (platform = "android" /\ \A p \in 1..Len(players) : p = realTimeAudioPlayer \/ players[p].stopping)
        => C34_AtMostOneActive

\* ------------------------------------------------------------------ repeated deinitialize
\* No initializeTTS has run since the last deinitialize returned, or none has
\* run at all: the player created last, if any, has been stopped.
NoLivePlayer == players = <<>> \/ players[Len(players)].stopped

\* This step is a call of deinitialize: a call that creates neither a player
\* nor a request.
DeinitializeCalled ==
    calls' = calls + 1 /\ Len(players') = Len(players) /\ Len(requests') = Len(requests)

\* C35: a deinitialize with no initializeTTS since the last deinitialize, or
\* before any initializeTTS, changes no state of the module or of a player,
\* posts no volume event and touches no device.
C35_DeinitializeIdempotent ==
    [][(NoLivePlayer /\ DeinitializeCalled) =>
          UNCHANGED <<tts, engineRate, realTimeAudioPlayer, players, requests, callerPc,
                      mainQueue, chunkEvents, written>>]_vars

\* A second deinitialize has just been called: a stopped player exists, the
\* module holds none, and a call has been counted beyond those of the one
\* initializeTTS and the one deinitialize.
C35_Witness ==
    /\ Len(players) = 1
    /\ players[1].stopped
    /\ realTimeAudioPlayer = 0
    /\ requests = <<>>
    /\ calls = 3
    /\ callerPc = Idle

\* ------------------------------------------------------------------ order across requests
\* The chunks a player's worker has still to write, in the order it will take
\* them: the one it holds, then its queue.
PendingOf(p) ==
    (IF players[p].held = NoChunk THEN <<>> ELSE <<players[p].held>>) \o players[p].audioQueue

\* On every player the chunks of an earlier request stand before those of a
\* later one, and all of them were enqueued after the chunks the player's
\* worker has already written.
EnqueuedInRequestOrder ==
    \A p \in 1..Len(players) :
       /\ \A i, j \in 1..Len(PendingOf(p)) :
             (i < j) => PendingOf(p)[i].r <= PendingOf(p)[j].r
       /\ \A i \in 1..Len(written) : \A j \in 1..Len(PendingOf(p)) :
             (written[i].p = p) => written[i].r <= PendingOf(p)[j].r

\* The device writes follow the order of the requests.
WrittenInRequestOrder ==
    \A i, j \in 1..Len(written) : (i < j) => written[i].r <= written[j].r

\* A chunk of a later request was written while a chunk of an earlier one
\* still waits.
WrittenBeforeEarlier ==
    \E i \in 1..Len(written) : \E p \in 1..Len(players) : \E j \in 1..Len(PendingOf(p)) :
        PendingOf(p)[j].r < written[i].r

\* C36: the chunks of two generateAndPlay requests never interleave: all chunks
\* of the earlier request are enqueued, and written to the device, before any
\* chunk of the later one.
C36_NoInterleaving ==
    /\ EnqueuedInRequestOrder
    /\ WrittenInRequestOrder
    /\ ~WrittenBeforeEarlier

\* C36 within one player: its queue and its writes follow the order of the
\* requests.
C36_NoInterleaving_perPlayer ==
    /\ EnqueuedInRequestOrder
    /\ \A i, j \in 1..Len(written) :
          (i < j /\ written[i].p = written[j].p) => written[i].r <= written[j].r

\* ------------------------------------------------------------------ the two segmenters
\* The platform whose splitText is not the one that ran.
OtherPlatform == IF splitPlatform = "ios" THEN "android" ELSE "ios"

\* The text with whitespace before and after it.
Padded(text) == <<" ">> \o text \o <<" ">>

\* C37: for the same text and the same maxWords the Android and the iOS
\* splitText return the same segments, for the trimmed text the module passes
\* and for the text with whitespace around it.
C37_SameSegments ==
    splitPc = "returned" =>
        /\ sentences = splitText(OtherPlatform, splitInput, splitMaxWords)
        /\ splitText("ios", Padded(splitInput), splitMaxWords)
             = splitText("android", Padded(splitInput), splitMaxWords)
        /\ splitText(splitPlatform, Padded(splitInput), splitMaxWords) = sentences

\* A finished split of a text with two whitespace characters in a row, cut
\* after a comma into several segments.
C37_Witness ==
    /\ splitPc = "returned"
    /\ Len(sentences) >= 2
    /\ \E i \in 1..(Len(splitInput) - 1) : splitInput[i] = " " /\ splitInput[i + 1] = " "
    /\ \E i \in 1..Len(sentences) : sentences[i][Len(sentences[i])] = ","

\* ------------------------------------------------------------------ termination of splitText
\* This step is one iteration of the loop of splitText.
SplitIterated == splitPc = "loop" /\ splitPc' = "loop" /\ <<currentIndex, sentences>>' # <<currentIndex, sentences>>

\* C38: splitText terminates; each iteration of its loop appends exactly one
\* segment and advances the cursor by at least 1 and at most maxWords, and the
\* segments are never more than the words of the text.
C38_SplitTerminates ==
    /\ [][SplitIterated =>
             /\ Len(sentences') = Len(sentences) + 1
             /\ SubSeq(sentences', 1, Len(sentences)) = sentences
             /\ currentIndex' - currentIndex >= 1
             /\ currentIndex' - currentIndex <= splitMaxWords]_vars
    /\ [](Len(sentences) <= Len(wordsOf(splitPlatform, splitInput)))
    /\ (splitPc = "loop" ~> splitPc = "returned")

\* A finished split with a window of several words that made as many segments
\* as the text has words.
C38_Witness ==
    /\ splitPc = "returned"
    /\ splitMaxWords >= 2
    /\ Len(sentences) >= 2
    /\ Len(sentences) = Len(wordsOf(splitPlatform, splitInput))
====
